---- MODULE Spec2Model ----
(***************************************************************************)
(* Model of the jupyter-kernel-controller reconciliation engine: the       *)
(* Reconcile loops of the three coexisting API variants (v1, v1beta1,      *)
(* v1alpha1), the Pod/Service generators, the status projector and the     *)
(* event relay, over a store of Kernels, Pods, Services and Events.        *)
(***************************************************************************)
EXTENDS Integers, Sequences, FiniteSets, TLC

VARIABLES
    variant,    \* which engine is deployed: "v1", "v1beta1" or "v1alpha1"
    schemeOK,   \* whether r.Scheme has the Kernel type registered
    kernels,    \* store: key -> Nil or <<Kernel object>>
    pods,       \* store: key -> Nil or <<Pod object>>
    services,   \* store: key -> Nil or <<Service object>>
    events,     \* store: key -> Nil or <<Event object>>
    metrics,    \* the in-process prometheus vectors
    emitted,    \* events emitted through r.EventRecorder
    clock,      \* wall clock, seconds (0 is the zero time.Time)
    proc,       \* per worker: position and locals of the running Reconcile
    lastOK,     \* key of the Reconcile that just returned nil, cluster untouched since
    calls,      \* number of Reconcile invocations so far
    envLeft,    \* cluster changes the environment may still make
    fn          \* harness of the pure functions: [op, in, out]

vars == <<variant, schemeOK, kernels, pods, services, events, metrics, emitted,
          clock, proc, lastOK, calls, envLeft, fn>>

Nil == <<>>
Some(x) == <<x>>

Variants == {"v1", "v1beta1", "v1alpha1"}

(***************************************************************************)
(* Strings that the code searches character by character are sequences of *)
(* one-character strings.                                                  *)
(***************************************************************************)
sKubectl == <<"k","u","b","e","c","t","l">>
sKernel == <<"k","e","r","n","e","l">>

\* strings.Contains(s, substr)
Contains(s, substr) ==
    \E i \in 0..(Len(s) - Len(substr)) : SubSeq(s, i + 1, i + Len(substr)) = substr

EmptyMap == [k \in {} |-> ""]

\* m[k] = v on a Go map
MapPut(m, k, v) == [x \in (DOMAIN m) \cup {k} |-> IF x = k THEN v ELSE m[x]]

\* for k, v := range src { dst[k] = v }
MapCopyInto(dst, src) ==
    [x \in (DOMAIN dst) \cup (DOMAIN src) |-> IF x \in DOMAIN src THEN src[x] ELSE dst[x]]

\* m[k] of a map[string]string: the zero value "" when the key is absent
MapGet(m, k) == IF k \in DOMAIN m THEN m[k] ELSE ""

(***************************************************************************)
(* Label keys and fixed strings of the three variants.                     *)
(***************************************************************************)
KernelNameLabel == "jupyter.org/kernel-name"
KernelIdleLabel == "jupyrator.org/kernel-idle"
KERNEL_NAME_LABEL_NAME == "jupyter.org/kernel-name"
AlphaGeneratorNameLabel == "Kernel-name"
KERNEL_UPDATED_LABEL_NAME == "jupyter-kernel-controller/updated"
KERNEL_UPDATED_LABEL_VALUE == "True"
DEFAULT_RESTART_POLICY == "Never"
DefaultMonitorContainerImage == "ghcr.io/weekenthralling/kernel-monitor:latest"
RestartPolicyNever == "Never"

WaitCommand ==
    <<"/bin/bash", "-c",
      "until (echo -n > /dev/tcp/127.0.0.1/65432) 2>/dev/null; do sleep 1; done; exec /usr/local/bin/bootstrap-kernel.sh">>

\* The reconciler's key pair (r.PublicKey, r.PrivateKey), generated at start-up.
PublicKey == <<"P","U","B">>
PrivateKey == "PRIV"
sResponseAddress == <<"1","2","7",".","0",".","0",".","1",":","6","5","4","3","2">>

EnvVar(n, v) == [name |-> n, value |-> v, fieldPath |-> ""]
EnvFieldRef(n, path) == [name |-> n, value |-> <<>>, fieldPath |-> path]

(***************************************************************************)
(* strconv.Itoa / strconv.Atoi on decimal strings.                         *)
(***************************************************************************)
Digits == <<"0","1","2","3","4","5","6","7","8","9">>

RECURSIVE Itoa(_)
Itoa(n) == IF n < 10 THEN <<Digits[n + 1]>> ELSE Itoa(n \div 10) \o <<Digits[(n % 10) + 1]>>

DigitVal(c) == CHOOSE d \in 0..9 : Digits[d + 1] = c

IsDigit(c) == \E d \in 0..9 : Digits[d + 1] = c

RECURSIVE AtoiDigits(_)
AtoiDigits(s) ==
    IF Len(s) = 0 THEN 0
    ELSE 10 * AtoiDigits(SubSeq(s, 1, Len(s) - 1)) + DigitVal(s[Len(s)])

\* port, _ := strconv.Atoi(v): 0 when v is not a decimal number
Atoi(s) ==
    IF Len(s) > 0 /\ \A i \in 1..Len(s) : IsDigit(s[i]) THEN AtoiDigits(s) ELSE 0

(***************************************************************************)
(* Configuration defaults (config.LoadConfig) of the port-injecting        *)
(* variant.                                                                *)
(***************************************************************************)
ShellPort == 52700
IOPubPort == 52701
HBPort == 52702
ControlPort == 52703
StdinPort == 52704

Config ==
    [SHELL_PORT |-> ShellPort, IOPUB_PORT |-> IOPubPort, STDIN_PORT |-> StdinPort,
     HB_PORT |-> HBPort, CONTROL_PORT |-> ControlPort]

\* LoadConfig defaults of the later variants (kernel_*_port keys)
LaterConfig ==
    [SHELL_PORT |-> 52317, IOPUB_PORT |-> 52318, HB_PORT |-> 52319,
     CONTROL_PORT |-> 52320, STDIN_PORT |-> 52321]

\* "Environment parameters" table of the README of the port-injecting variant
ReadmePortsEarlier ==
    [SHELL_PORT |-> 52700, IOPUB_PORT |-> 52701, STDIN_PORT |-> 52702,
     HB_PORT |-> 52703, CONTROL_PORT |-> 52704]

\* "Environment parameters" table of the README of the later variants
ReadmePortsLater ==
    [SHELL_PORT |-> 52317, IOPUB_PORT |-> 52318, STDIN_PORT |-> 52319,
     HB_PORT |-> 52320, CONTROL_PORT |-> 52321]

PortNames == <<"SHELL_PORT", "IOPUB_PORT", "STDIN_PORT", "HB_PORT", "CONTROL_PORT">>

\* Go leaves the iteration order of the ports map unspecified: the orders considered.
PortOrders ==
    { <<1, 2, 3, 4, 5>>, <<5, 4, 3, 2, 1>>, <<3, 1, 5, 2, 4>> }

RECURSIVE AppendMissingPorts(_, _, _, _)
AppendMissingPorts(env, found, order, i) ==
    IF i > Len(order) THEN env
    ELSE LET n == PortNames[order[i]]
         IN  IF n \in found
             THEN AppendMissingPorts(env, found, order, i + 1)
             ELSE AppendMissingPorts(Append(env, EnvVar(n, Itoa(Config[n]))), found, order, i + 1)

\* addKernelPortEnvIfNotFound that appends every port, set or not
addKernelPortEnvAlways(env, order) == AppendMissingPorts(env, {}, order, 1)

\* addKernelPortEnvIfNotFound(pod, config), on container[0]'s environment
addKernelPortEnvIfNotFound(env, order) ==
    AppendMissingPorts(env, {env[i].name : i \in 1..Len(env)}, order, 1)

(***************************************************************************)
(* Pod generation.                                                         *)
(***************************************************************************)
\* strings.Contains(k, "kubectl") || strings.Contains(k, "kernel"): not copied
AnnotationExcluded(k) == Contains(k, sKubectl) \/ Contains(k, sKernel)

\* FilterAnnotations with the "kernel" test dropped
FilterAnnotationsKubectlOnly(ann) ==
    [k \in {x \in DOMAIN ann : ~Contains(x, sKubectl)} |-> ann[k]]

\* Copy all the kernel annotations to the pod, excluding kubectl and kernel ones
FilterAnnotations(ann) ==
    [k \in {x \in DOMAIN ann : ~AnnotationExcluded(x)} |-> ann[k]]

\* The Labels literal the Pod is constructed with, before the Kernel's are copied in
InitialPodLabels(v, instance) ==
    CASE v = "v1" -> EmptyMap
      [] v = "v1beta1" -> MapPut(EmptyMap, KERNEL_NAME_LABEL_NAME, instance.name)
      [] v = "v1alpha1" -> MapPut(EmptyMap, AlphaGeneratorNameLabel, instance.name)

\* The defaulting one would expect: if x == 0 { x = dflt }
DefaultIfUnset(x, dflt) == IF x = 0 THEN dflt ELSE x

\* if x != 0 { x = dflt }
DefaultIfSet(x, dflt) == IF x # 0 THEN dflt ELSE x

IdleTimeoutDefault == 3600
CullingIntervalDefault == 60

MonitorContainer(instance) ==
    [name |-> "monitor",
     image |-> DefaultMonitorContainerImage,
     command |-> <<>>,
     args |-> <<"--idle-timeout",
                ToString(DefaultIfSet(instance.spec.idleTimeoutSeconds, IdleTimeoutDefault)),
                "--culling-interval",
                ToString(DefaultIfSet(instance.spec.cullingIntervalSeconds, CullingIntervalDefault)),
                "--private-key", PrivateKey>>,
     env |-> <<EnvFieldRef("NAME", "metadata.name"),
               EnvFieldRef("NAMESPACE", "metadata.namespace"),
               EnvFieldRef("IP", "status.podIP")>>]

\* The kernel container left with the name the template gave it
TemplateContainerName(instance, c0) == c0.name

\* pod.Spec.Containers[0].Name = instance.Name
KernelContainerName(instance, c0) == instance.name

\* The containers of the generated Pod, from the deep copy of the template's
GenContainers(v, instance, order) ==
    LET cs == instance.spec.template.containers
        c0 == cs[1]
    IN  CASE v = "v1" ->
               Append([cs EXCEPT ![1] =
                          [c0 EXCEPT !.name = KernelContainerName(instance, c0),
                                     !.command = WaitCommand,
                                     !.env = c0.env \o <<EnvVar("PUBLIC_KEY", PublicKey),
                                                         EnvVar("RESPONSE_ADDRESS", sResponseAddress)>>]],
                      MonitorContainer(instance))
          [] v = "v1beta1" ->
               [cs EXCEPT ![1] = [c0 EXCEPT !.name = KernelContainerName(instance, c0)]]
          [] v = "v1alpha1" ->
               [cs EXCEPT ![1] = [c0 EXCEPT !.env = addKernelPortEnvIfNotFound(c0.env, order)]]

\* The template's restart policy taken over as it is
TemplateRestartPolicy(v, instance) == instance.spec.template.restartPolicy

\* pod.Spec.RestartPolicy = corev1.RestartPolicyNever, in the v1 generator only
PodRestartPolicy(v, instance) ==
    IF v = "v1" THEN RestartPolicyNever ELSE instance.spec.template.restartPolicy

EmptyPodStatus == [phase |-> "", podIP |-> "", conditions |-> <<>>, containerStatuses |-> <<>>]

\* generatePod (v1, v1alpha1) / generatePodResource (v1beta1): the Pod returned
generatePod(v, instance, order) ==
    [name |-> instance.name,
     namespace |-> instance.namespace,
     labels |-> MapCopyInto(InitialPodLabels(v, instance), instance.labels),
     annotations |-> FilterAnnotations(instance.annotations),
     owner |-> Nil,
     spec |-> [containers |-> GenContainers(v, instance, order),
               restartPolicy |-> PodRestartPolicy(v, instance)],
     status |-> EmptyPodStatus]

\* Spec: instance.Spec.Template.Spec, a struct copy: the Pod's Containers slice
\* then has the backing array of the Kernel's
TemplateCopiedByValue(v) == TRUE

\* Spec: *instance.Spec.Template.Spec.DeepCopy(): whether the Pod's Containers
\* slice shares its backing array with the Kernel's template
TemplateShared(v) == FALSE

\* The Kernel object behind `instance` once the generator has returned: the
\* generator only reads its labels and annotations (range), and writes
\* container[0] of the Pod, which is the Kernel's own container[0] if the
\* backing array is shared; the appended containers lie beyond the Kernel's
\* slice length, and the restart policy is a field of the copied struct
InstanceAfterGenerate(v, instance, order) ==
    IF TemplateShared(v)
    THEN [instance EXCEPT !.spec.template.containers[1] = GenContainers(v, instance, order)[1]]
    ELSE instance

(***************************************************************************)
(* Objects as the store holds them (their JSON) and as a Get decodes them. *)
(* A corev1.ContainerState is three pointers; the store holds what they    *)
(* point to, and every Get decodes into freshly allocated structs, so a    *)
(* decoded pointer is a pair of its address and the value behind it.       *)
(***************************************************************************)
StateFields == {"Waiting", "Running", "Terminated"}

EmptyState == [f \in StateFields |-> Nil]

\* json decoding of a ContainerState into the struct at `obj`, element `i`
DecodeState(obj, i, st) ==
    [f \in StateFields |->
        IF st[f] = Nil THEN Nil ELSE Some([addr |-> <<obj, i, f>>, val |-> st[f][1]])]

\* json encoding: what the pointers point to
EncodeState(st) ==
    [f \in StateFields |-> IF st[f] = Nil THEN Nil ELSE Some(st[f][1].val)]

\* Go's == on two pointers: both nil, or the same address
PtrEq(a, b) == (a = Nil /\ b = Nil) \/ (a # Nil /\ b # Nil /\ a[1].addr = b[1].addr)

\* StateEq comparing what the pointers point to, as reflect.DeepEqual would
StateDeepEq(a, b) ==
    \A f \in StateFields :
        (a[f] = Nil /\ b[f] = Nil) \/ (a[f] # Nil /\ b[f] # Nil /\ a[f][1].val = b[f][1].val)

\* Go's == on two ContainerState structs: field by field on the pointers
StateEq(a, b) == \A f \in StateFields : PtrEq(a[f], b[f])

DecodePodStatus(obj, st) ==
    [st EXCEPT !.containerStatuses =
        [i \in 1..Len(st.containerStatuses) |->
            [name |-> st.containerStatuses[i].name,
             state |-> DecodeState(obj, i, st.containerStatuses[i].state)]]]

DecodePod(obj, p) == [p EXCEPT !.status = DecodePodStatus(obj, p.status)]

DecodeKernel(obj, k) ==
    [k EXCEPT !.status.containerState = DecodeState(obj, 0, k.status.containerState)]

EncodeKernelStatus(st) == [st EXCEPT !.containerState = EncodeState(st.containerState)]

\* The zero corev1.Pod{} that foundPod stays when the Get did not fill it
ZeroPod ==
    [name |-> "", namespace |-> "", labels |-> EmptyMap, annotations |-> [k \in {} |-> ""],
     owner |-> Nil, spec |-> [containers |-> <<>>, restartPolicy |-> ""],
     status |-> EmptyPodStatus]

(***************************************************************************)
(* Status projection.                                                      *)
(***************************************************************************)
\* PodCondToKernelCond without the defaulting of zero times
PodCondToKernelCondVerbatim(podc, nowProbe, nowTrans) ==
    [type |-> podc.type, status |-> podc.status, message |-> podc.message,
     reason |-> podc.reason, lastProbeTime |-> podc.lastProbeTime,
     lastTransitionTime |-> podc.lastTransitionTime]

\* PodCondToKernelCond; nowProbe and nowTrans are what the two metav1.Now() return
PodCondToKernelCond(podc, nowProbe, nowTrans) ==
    [type |-> IF podc.type # "" THEN podc.type ELSE "",
     status |-> IF podc.status # "" THEN podc.status ELSE "",
     message |-> IF podc.message # "" THEN podc.message ELSE "",
     reason |-> IF podc.reason # "" THEN podc.reason ELSE "",
     lastProbeTime |-> IF podc.lastProbeTime # 0 THEN podc.lastProbeTime ELSE nowProbe,
     lastTransitionTime |->
         IF podc.lastTransitionTime # 0 THEN podc.lastTransitionTime ELSE nowTrans]

\* The loop over pod.Status.ContainerStatuses: the state adopted, from index i on
RECURSIVE ScanContainerStatuses(_, _, _, _)
ScanContainerStatuses(cs, name, prior, i) ==
    IF i > Len(cs) THEN [found |-> FALSE, state |-> EmptyState]
    ELSE IF cs[i].name # name THEN ScanContainerStatuses(cs, name, prior, i + 1)
    ELSE IF StateEq(cs[i].state, prior) THEN ScanContainerStatuses(cs, name, prior, i + 1)
    ELSE [found |-> TRUE, state |-> cs[i].state]

\* A status literal that leaves Phase and IP at their zero values
InitialKernelStatusBlank(v, pod) ==
    [conditions |-> <<>>, containerState |-> EmptyState,
     readyReplicas |-> IF v = "v1" THEN 0 ELSE 1, phase |-> "", ip |-> ""]

\* The status literal createKernelStatus starts from
InitialKernelStatus(v, pod) ==
    [conditions |-> <<>>,
     containerState |-> EmptyState,
     readyReplicas |-> IF v = "v1" THEN 0 ELSE 1,
     phase |-> IF v = "v1" THEN pod.status.phase ELSE "",
     ip |-> IF v = "v1" THEN pod.status.podIP ELSE ""]

\* A projector that leaves the Kernel's previous containerState in place when the
\* Pod has no status
createKernelStatusKeepsState(v, kernel, pod, nows) ==
    IF pod.status = EmptyPodStatus
    THEN [InitialKernelStatus(v, pod) EXCEPT !.containerState = kernel.status.containerState]
    ELSE InitialKernelStatus(v, pod)

\* createKernelStatus(kernel, pod, req); nows[i] are the times metav1.Now()
\* returns while condition i is converted
createKernelStatus(v, kernel, pod, nows) ==
    LET status == InitialKernelStatus(v, pod)
    IN  IF pod.status = EmptyPodStatus THEN status
        ELSE LET scan == ScanContainerStatuses(pod.status.containerStatuses, kernel.name,
                                               kernel.status.containerState, 1)
             IN  [status EXCEPT
                     !.containerState = IF scan.found THEN scan.state ELSE @,
                     !.conditions =
                         [i \in 1..Len(pod.status.conditions) |->
                             PodCondToKernelCond(pod.status.conditions[i],
                                                 nows[i][1], nows[i][2])]]

(***************************************************************************)
(* Bounds of the model.                                                    *)
(***************************************************************************)
MaxClock == 3
MaxConds == 2

Namespaces == {"default"}
Names == {"foo", "bar"}
Keys == Namespaces \X Names
Procs == {"w1", "w2"}

(***************************************************************************)
(* Inputs of the pure functions.                                           *)
(***************************************************************************)
\* "kubectl/last": a key kubectl manages
aKubectl == <<"k","u","b","e","c","t","l","/","l","a","s","t">>
\* "jupyter.org/kernel-id"
aKernelId == <<"j","u","p","y","t","e","r",".","o","r","g","/","k","e","r","n","e","l","-","i","d">>
\* KERNEL_CULLING_ANNO_NAME, "jupyter.org/kernel-deletion"
aKernelDeletion ==
    <<"j","u","p","y","t","e","r",".","o","r","g","/","k","e","r","n","e","l","-",
      "d","e","l","e","t","i","o","n">>
\* "team"
aTeam == <<"t","e","a","m">>
\* "Kernel-owner": differs from "kernel" in case
aKernelUpper == <<"K","e","r","n","e","l","-","o","w","n","e","r">>
\* "kubect": a proper prefix of "kubectl"
aKubect == <<"k","u","b","e","c","t">>

AnnotationValues ==
    [x \in {aKubectl, aKernelId, aTeam, aKernelUpper, aKubect} |->
        IF x = aTeam THEN {"a", "b"} ELSE {"a"}]

\* every map from a subset of keys to one of each key's values
MapsOver(keys, values) ==
    UNION { { m \in [ks -> UNION {values[k] : k \in ks}] : \A k \in ks : m[k] \in values[k] }
            : ks \in SUBSET keys }

GenAnnotationMaps == MapsOver(DOMAIN AnnotationValues, AnnotationValues)

LabelValues ==
    [x \in {"app", KernelNameLabel, AlphaGeneratorNameLabel} |->
        IF x = "app" THEN {"nb"} ELSE IF x = KernelNameLabel THEN {"foo", "zed"} ELSE {"zed"}]

GenLabelMaps == MapsOver(DOMAIN LabelValues, LabelValues)

sKernelIdValue == <<"7","d","2","5">>

MainContainer ==
    [name |-> "main", image |-> "elyra/kernel-py:3.2.3", command |-> <<>>, args |-> <<>>,
     env |-> <<EnvVar("KERNEL_ID", sKernelIdValue)>>]

SidecarContainer ==
    [name |-> "proxy", image |-> "envoy", command |-> <<>>, args |-> <<>>, env |-> <<>>]

\* A kernel container whose template sets two of the ports itself
PortedContainer ==
    [MainContainer EXCEPT !.env = @ \o <<EnvVar("SHELL_PORT", <<"6","0","0","0">>),
                                          EnvVar("HB_PORT", <<"7","0","0","0">>)>>]

Templates ==
    { [containers |-> <<MainContainer>>, restartPolicy |-> ""],
      [containers |-> <<MainContainer, SidecarContainer>>, restartPolicy |-> "Always"],
      [containers |-> <<MainContainer, [SidecarContainer EXCEPT !.name = "monitor"]>>,
       restartPolicy |-> "Always"],
      [containers |-> <<PortedContainer>>, restartPolicy |-> "OnFailure"] }

GenSpecs ==
    { [template |-> t, idleTimeoutSeconds |-> p[1], cullingIntervalSeconds |-> p[2]]
      : t \in Templates, p \in {<<0, 0>>, <<30, 45>>} }

EmptyKernelStatus ==
    [conditions |-> <<>>, containerState |-> EmptyState, readyReplicas |-> 0,
     phase |-> "", ip |-> ""]

Kernel(ns, n, uid, labels, annotations, spec, status) ==
    [name |-> n, namespace |-> ns, uid |-> uid, labels |-> labels,
     annotations |-> annotations, spec |-> spec, status |-> status]

GenKernels ==
    { Kernel("default", n, 1, l, a, sp, EmptyKernelStatus)
      : n \in Names, l \in GenLabelMaps, a \in GenAnnotationMaps, sp \in GenSpecs }

CanonicalOrder == <<1, 2, 3, 4, 5>>

\* Container states as the kubelet reports them
StWaiting == [EmptyState EXCEPT !.Waiting = Some([reason |-> "ContainerCreating"])]
StRunning == [EmptyState EXCEPT !.Running = Some([startedAt |-> 1])]
StTerminated == [EmptyState EXCEPT !.Terminated = Some([exitCode |-> 0])]

PodCond(t, s, r, m, probe, trans) ==
    [type |-> t, status |-> s, reason |-> r, message |-> m,
     lastProbeTime |-> probe, lastTransitionTime |-> trans]

CondPool ==
    { PodCond("PodScheduled", "False", "Unschedulable", "0/1 nodes are available", 0, 1),
      PodCond("Ready", "True", "", "", 0, 0),
      PodCond("Initialized", "", "", "", 3, 3) }

\* the sequences over S of length at most n
RECURSIVE SeqsUpTo(_, _)
SeqsUpTo(S, n) ==
    IF n = 0 THEN {<<>>}
    ELSE LET shorter == SeqsUpTo(S, n - 1)
         IN  shorter \cup {Append(q, x) : q \in shorter, x \in S}

StatusEntries ==
    { [name |-> n, state |-> st] : n \in {"foo", "main"}, st \in {EmptyState, StWaiting, StRunning} }

\* container names are unique within a Pod
ContainerStatusLists ==
    { q \in SeqsUpTo(StatusEntries, 2) : \A i, j \in 1..Len(q) : i # j => q[i].name # q[j].name }

ProjPodStatuses ==
    { [phase |-> ph, podIP |-> IF ph = "Running" THEN "10.0.0.7" ELSE "",
       conditions |-> c, containerStatuses |-> cs]
      : ph \in {"", "Running"}, c \in SeqsUpTo(CondPool, MaxConds), cs \in ContainerStatusLists }

PriorStates == {EmptyState, StWaiting, StRunning, StTerminated}

\* what 2n successive metav1.Now() return: lo up to call j, hi after it
NowSeqs(n, lo, hi, j) ==
    [i \in 1..n |-> << IF 2 * i - 1 <= j THEN lo ELSE hi, IF 2 * i <= j THEN lo ELSE hi >>]

(***************************************************************************)
(* Metrics and workers at rest.                                            *)
(***************************************************************************)
\* The (namespace, name) label pairs the culling metrics are given: the keys of
\* the store, and the empty pair of a Pod object no Get has filled
MetricKeys == Keys \cup {<<"", "">>}

ZeroMetrics ==
    [KernelCreation |-> [ns \in Namespaces |-> 0],
     KernelFailCreation |-> [ns \in Namespaces |-> 0],
     KernelCullingCount |-> [k \in MetricKeys |-> 0],
     KernelCullingTimestamp |-> [k \in MetricKeys |-> 0],
     runningKernels |-> [ns \in Namespaces |-> 0]]

IdleProc ==
    [pc |-> "idle", req |-> Nil, event |-> Nil, involvedPod |-> Nil, resolved |-> Nil,
     instance |-> Nil, fetched |-> Nil, pod |-> Nil, foundPod |-> Nil,
     service |-> Nil, foundService |-> Nil, justCreated |-> FALSE,
     err |-> "", ops |-> <<>>, second |-> FALSE, quiet |-> TRUE, m0 |-> Nil, e0 |-> 0, t0 |-> 0, t |-> 0,
     created |-> 0, result |-> Nil]

EngineOff ==
    /\ schemeOK = TRUE
    /\ kernels = [k \in Keys |-> Nil]
    /\ pods = [k \in Keys |-> Nil]
    /\ services = [k \in Keys |-> Nil]
    /\ events = [k \in Keys |-> Nil]
    /\ metrics = ZeroMetrics
    /\ emitted = <<>>
    /\ proc = [w \in Procs |-> IdleProc]
    /\ lastOK = Nil
    /\ calls = 0
    /\ envLeft = 0

engineVars ==
    <<schemeOK, kernels, pods, services, events, metrics, emitted, proc, lastOK, calls,
      envLeft>>

(***************************************************************************)
(* The generators and the projector applied to drawn inputs.               *)
(***************************************************************************)
InitGen ==
    /\ EngineOff
    /\ variant \in Variants
    /\ clock = 1
    /\ fn \in { [op |-> "gen", in |-> [instance |-> k, order |-> o], out |-> Nil,
                 instance |-> k]
                : k \in GenKernels,
                  o \in IF variant = "v1alpha1" THEN PortOrders ELSE {CanonicalOrder} }

GenPodCall ==
    /\ fn.op = "gen"
    /\ fn.out = Nil
    /\ fn' = [fn EXCEPT !.out = Some(generatePod(variant, fn.in.instance, fn.in.order)),
                        !.instance = InstanceAfterGenerate(variant, fn.in.instance,
                                                           fn.in.order)]
    /\ UNCHANGED <<variant, clock, engineVars>>

SpecGen == InitGen /\ [][GenPodCall]_vars

\* The status the Kernel had before: a Kernel whose container ran had phase and IP
PriorStatus(prior) ==
    [EmptyKernelStatus EXCEPT !.containerState = prior,
                              !.phase = IF prior = StRunning THEN "Running" ELSE "",
                              !.ip = IF prior = StRunning THEN "10.0.0.9" ELSE ""]

InitStatus ==
    /\ EngineOff
    /\ variant \in Variants
    /\ clock = 2
    /\ fn \in { [op |-> "status",
                 in |-> [kernel |-> Kernel("default", "foo", 1, EmptyMap, [x \in {} |-> ""],
                                           CHOOSE sp \in GenSpecs : TRUE,
                                           PriorStatus(prior)),
                         pod |-> pod,
                         t0 |-> 2],
                 out |-> Nil]
                : prior \in PriorStates,
                  pod \in { [ZeroPod EXCEPT !.name = "foo", !.namespace = "default",
                                            !.status = ps] : ps \in ProjPodStatuses }
                           \cup {ZeroPod} }

\* r.createKernelStatus(&kernel, &pod, req) on a Kernel and a Pod decoded from the store
CreateKernelStatusCall ==
    /\ fn.op = "status"
    /\ fn.out = Nil
    /\ \E lo \in clock..MaxClock : \E hi \in lo..MaxClock :
       \E j \in 0..(2 * Len(fn.in.pod.status.conditions)) :
          /\ fn' = [fn EXCEPT !.out =
                        Some(createKernelStatus(variant,
                                 DecodeKernel("kernel", fn.in.kernel),
                                 DecodePod("pod", fn.in.pod),
                                 NowSeqs(Len(fn.in.pod.status.conditions), lo, hi, j)))]
          /\ clock' = hi
    /\ UNCHANGED <<variant, engineVars>>

SpecStatus == InitStatus /\ [][CreateKernelStatusCall]_vars

(***************************************************************************)
(* The cluster the engine runs against.                                    *)
(***************************************************************************)
MaxCalls == 2
MaxEnv == 1

EngineVariants == {"v1", "v1alpha1"}

\* The key under which the environment creates objects
Foo == <<"default", "foo">>

\* The label kernelNameFromInvolvedObject reads off the Pod
RelayNameLabel(v) ==
    CASE v = "v1" -> KernelNameLabel
      [] v = "v1beta1" -> KERNEL_NAME_LABEL_NAME
      [] v = "v1alpha1" -> "kernel-name"

EngineSpec ==
    [template |-> [containers |-> <<MainContainer>>, restartPolicy |-> ""],
     idleTimeoutSeconds |-> 0, cullingIntervalSeconds |-> 0]

LabelSets(n) ==
    { EmptyMap,
      MapPut(EmptyMap, KernelIdleLabel, "true"),
      MapPut(EmptyMap, KernelNameLabel, n) }

ReadyCond == PodCond("Ready", "True", "", "", 0, 1)
UnschedulableCond == PodCond("PodScheduled", "False", "Unschedulable", "0/1 nodes are available", 0, 1)

\* What the kubelet reports of a Pod whose containers run
RunningStatus(containers) ==
    [phase |-> "Running", podIP |-> "10.0.0.7", conditions |-> <<ReadyCond>>,
     containerStatuses |->
         [i \in 1..Len(containers) |-> [name |-> containers[i].name, state |-> StRunning]]]

\* What the scheduler reports of a Pod no node has room for
PendingStatus ==
    [phase |-> "Pending", podIP |-> "", conditions |-> <<UnschedulableCond>>,
     containerStatuses |-> <<>>]

\* The status a Kernel carries once a running Pod has been projected onto it
ReconciledStatus(v) ==
    [conditions |-> <<[type |-> "Ready", status |-> "True", message |-> "", reason |-> "",
                       lastProbeTime |-> 1, lastTransitionTime |-> 1]>>,
     containerState |-> StRunning,
     readyReplicas |-> IF v = "v1" THEN 0 ELSE 1,
     phase |-> IF v = "v1" THEN "Running" ELSE "",
     ip |-> IF v = "v1" THEN "10.0.0.7" ELSE ""]

\* kernelAnnotations[KERNEL_ID_ANNO_NAME] = currentKernelEnv["KERNEL_ID"]: the map
\* built from the env list keeps the last value of a name, "" when there is none
createKernelAnnotation(kernelEnv) ==
    LET at == {i \in 1..Len(kernelEnv) : kernelEnv[i].name = "KERNEL_ID"}
    IN  MapPut([x \in {} |-> ""], aKernelId,
               IF at = {} THEN <<>>
               ELSE kernelEnv[CHOOSE i \in at : \A j \in at : j <= i].value)

\* What updateKernelResource makes of the instance before it sends the Update
updateKernelResource(instance) ==
    [instance EXCEPT
        !.annotations = MapCopyInto(@, createKernelAnnotation(
                                           instance.spec.template.containers[1].env)),
        !.labels = MapPut(@, KERNEL_UPDATED_LABEL_NAME, KERNEL_UPDATED_LABEL_VALUE),
        !.spec.template.restartPolicy = IF @ = "" THEN DEFAULT_RESTART_POLICY ELSE @]

\* The v1beta1 Kernels that may exist under k when the controller starts: as the
\* user wrote them, or as an earlier Reconcile left them, with or without the
\* culling annotation
InitialKernelsBeta(k) ==
    LET plain == Kernel(k[1], k[2], 1, EmptyMap, [x \in {} |-> ""], EngineSpec,
                        [EmptyKernelStatus EXCEPT !.readyReplicas = 0])
        marked(kn) == [kn EXCEPT !.annotations = MapPut(@, aKernelDeletion, "True")]
    IN  { plain, marked(plain),
          updateKernelResource(plain), marked(updateKernelResource(plain)),
          [updateKernelResource(plain) EXCEPT !.status = ReconciledStatus("v1beta1")] }

InitialKernels(v, k) ==
    IF v = "v1beta1" THEN InitialKernelsBeta(k)
    ELSE
    { Kernel(k[1], k[2], 1, l, [x \in {} |-> ""], EngineSpec,
             [EmptyKernelStatus EXCEPT !.readyReplicas = 0])
      : l \in LabelSets(k[2]) }
    \cup { Kernel(k[1], k[2], 1, EmptyMap, [x \in {} |-> ""], EngineSpec, ReconciledStatus(v)) }

OwnerRef(kernel) ==
    [kind |-> "Kernel", name |-> kernel.name, uid |-> kernel.uid, controller |-> TRUE]

\* SetControllerReference leaving the object without an owner
SetNoReference(instance, obj) == obj

\* ctrl.SetControllerReference(instance, obj, r.Scheme) on a fresh object
SetControllerReference(instance, obj) == [obj EXCEPT !.owner = Some(OwnerRef(instance))]

\* A Pod somebody else created under the Kernel's name, labelled as Kernel bar's
ForeignPod(v, k) ==
    [ZeroPod EXCEPT !.name = k[2], !.namespace = k[1],
                    !.labels = MapPut(EmptyMap, RelayNameLabel(v), "bar"),
                    !.spec = [containers |-> <<MainContainer>>, restartPolicy |-> "Always"],
                    !.status = RunningStatus(<<MainContainer>>)]

\* The Pods that may exist under k when the controller starts
InitialPods(v, k, kernel) ==
    {Nil, Some(ForeignPod(v, k))}
    \cup (IF kernel = Nil THEN {}
          ELSE LET gen == SetControllerReference(kernel[1],
                              generatePod(v, kernel[1], CanonicalOrder))
               IN  { Some(gen),
                     Some([gen EXCEPT !.status = RunningStatus(gen.spec.containers)]) })

PodEvent(k) ==
    [name |-> k[2], namespace |-> k[1], type |-> "Warning", reason |-> "BackOff",
     message |-> "Back-off restarting failed container",
     involvedObject |-> [kind |-> "Pod", name |-> k[2], namespace |-> k[1]]]

NodeEvent(k) ==
    [PodEvent(k) EXCEPT !.involvedObject = [kind |-> "Node", name |-> "node-1", namespace |-> ""]]

(***************************************************************************)
(* Service generation and merge (Service variant).                         *)
(***************************************************************************)
ServicePortName(envName) ==
    CASE envName = "SHELL_PORT" -> "shell-port"
      [] envName = "IOPUB_PORT" -> "iopub-port"
      [] envName = "STDIN_PORT" -> "stdin-port"
      [] envName = "HB_PORT" -> "hb-port"
      [] envName = "CONTROL_PORT" -> "control-port"

\* addServicePort(envName, portName): one entry per env var of that name
RECURSIVE addServicePort(_, _, _, _)
addServicePort(ports, env, envName, i) ==
    IF i > Len(env) THEN ports
    ELSE IF env[i].name = envName
         THEN addServicePort(
                  Append(ports, [name |-> ServicePortName(envName), port |-> Atoi(env[i].value),
                                 protocol |-> "TCP", targetPort |-> Atoi(env[i].value)]),
                  env, envName, i + 1)
         ELSE addServicePort(ports, env, envName, i + 1)

RECURSIVE ServicePorts(_, _, _)
ServicePorts(ports, env, n) ==
    IF n > Len(PortNames) THEN ports
    ELSE ServicePorts(addServicePort(ports, env, PortNames[n], 1), env, n + 1)

\* generateService(instance, pod)
generateService(instance, pod) ==
    [name |-> instance.name, namespace |-> instance.namespace,
     labels |-> EmptyMap, annotations |-> EmptyMap, owner |-> Nil,
     spec |-> [type |-> "ClusterIP",
               selector |-> MapPut(EmptyMap, AlphaGeneratorNameLabel, instance.name),
               ports |-> ServicePorts(<<>>, pod.spec.containers[1].env, 1),
               clusterIP |-> ""]]

\* CopyServiceFields that reports a change on every call
CopyServiceFieldsAlways(from, to) ==
    [requireUpdate |-> TRUE,
     to |-> [to EXCEPT !.labels = from.labels, !.annotations = from.annotations,
                       !.spec.selector = from.spec.selector, !.spec.ports = from.spec.ports]]

\* CopyServiceFields copying the entire Spec, cluster IP included
CopyWholeServiceSpec(from, to) ==
    [requireUpdate |->
        \/ \E k \in DOMAIN to.labels : MapGet(from.labels, k) # to.labels[k]
        \/ \E k \in DOMAIN to.annotations : MapGet(from.annotations, k) # to.annotations[k]
        \/ to.spec.selector # from.spec.selector
        \/ to.spec.ports # from.spec.ports,
     to |-> [to EXCEPT !.labels = from.labels, !.annotations = from.annotations,
                       !.spec = from.spec]]

\* reconcilehelper.CopyServiceFields(from, to): the flag returned and `to` afterwards
CopyServiceFields(from, to) ==
    [requireUpdate |->
        \/ \E k \in DOMAIN to.labels : MapGet(from.labels, k) # to.labels[k]
        \/ \E k \in DOMAIN to.annotations : MapGet(from.annotations, k) # to.annotations[k]
        \/ to.spec.selector # from.spec.selector
        \/ to.spec.ports # from.spec.ports,
     to |-> [to EXCEPT !.labels = from.labels, !.annotations = from.annotations,
                       !.spec.selector = from.spec.selector, !.spec.ports = from.spec.ports]]

\* The Service as the API server holds it after a Create
StoredService(svc) == [svc EXCEPT !.spec.clusterIP = "10.96.0.10"]

InitialServices(v, k, kernel) ==
    IF v # "v1alpha1" \/ kernel = Nil THEN {Nil}
    ELSE LET svc == StoredService(SetControllerReference(kernel[1],
                        generateService(kernel[1], generatePod(v, kernel[1], CanonicalOrder))))
         IN  {Nil, Some(svc), Some([svc EXCEPT !.labels = MapPut(EmptyMap, "team", "a")])}

(***************************************************************************)
(* Reconcile, one store operation per step.                                *)
(***************************************************************************)
InitClusterOf(vs) ==
    /\ variant \in vs
    /\ schemeOK \in BOOLEAN
    /\ clock = 2
    /\ \E kn \in {Nil} \cup {Some(x) : x \in InitialKernels(variant, Foo)} :
       \E pd \in InitialPods(variant, Foo, kn) :
       \E sv \in InitialServices(variant, Foo, kn) :
       \E ev \in {Nil, Some(PodEvent(Foo)), Some(NodeEvent(Foo))} :
          /\ kernels = [k \in Keys |-> IF k = Foo THEN kn ELSE Nil]
          /\ pods = [k \in Keys |-> IF k = Foo THEN pd ELSE Nil]
          /\ services = [k \in Keys |-> IF k = Foo THEN sv ELSE Nil]
          /\ events = [k \in Keys |-> IF k = Foo THEN ev ELSE Nil]
    /\ metrics = ZeroMetrics
    /\ emitted = <<>>
    /\ proc = [w \in Procs |-> IdleProc]
    /\ lastOK = Nil
    /\ calls = 0
    /\ fn = [op |-> "none", in |-> Nil, out |-> Nil]

InitCluster == InitClusterOf(EngineVariants)

InitEngine == InitCluster /\ envLeft = MaxEnv

\* The workers the controller runs (MaxConcurrentReconciles is left at 1)
Workers == {"w1"}

Log(p, verb, kind, ok) == Append(p.ops, [verb |-> verb, kind |-> kind, ok |-> ok])

\* ignoreNotFound that lets every error through
keepNotFound(e) == e

\* ignoreNotFound that swallows every error
ignoreAll(e) == ""

\* ignoreNotFound(err)
ignoreNotFound(e) == IF e = "NotFound" THEN "" ELSE e

\* return ctrl.Result{}, e
\* ctrl.Result{}
EmptyResult == [Requeue |-> FALSE, RequeueAfter |-> 0]

\* A return that drops the error: return ctrl.Result{}, nil
ReturnNil(p, e) == [p EXCEPT !.pc = "done", !.err = "", !.result = Some(EmptyResult)]

\* return ctrl.Result{}, err
Return(p, e) == [p EXCEPT !.pc = "done", !.err = e, !.result = Some(EmptyResult)]

SetProc(w, p) == proc' = [proc EXCEPT ![w] = p]

\* A store call that fails for reasons of its own (network, rate limit)
StoreFault(w, verb, kind) ==
    /\ envLeft > 0
    /\ envLeft' = envLeft - 1
    /\ SetProc(w, Return([proc[w] EXCEPT !.ops = Log(proc[w], verb, kind, FALSE)], "StoreError"))

storeVars == <<kernels, pods, services, events>>

\* The keys the watches enqueue: objects exist under Foo only
Requests == {Foo}

\* A free worker takes a request off the queue and enters Reconcile
Deliver(w, k) ==
    /\ proc[w].pc = "idle"
    /\ SetProc(w, [IdleProc EXCEPT !.pc = "getEvent", !.req = k, !.m0 = metrics, !.e0 = Len(emitted),
                                   !.created = proc[w].created,
                                   !.t0 = clock, !.second = (lastOK = Some(k))])
    /\ UNCHANGED <<variant, schemeOK, storeVars, metrics, emitted, clock, lastOK, envLeft, fn>>

\* The framework hands a request to a free worker
Start(w, k) ==
    /\ calls < MaxCalls
    /\ calls' = calls + 1
    /\ Deliver(w, k)

\* An Event lookup whose result is not acted on: the Kernel is fetched whether or
\* not an Event was found
GetEventIgnored(w) ==
    LET p == proc[w]
    IN  /\ p.pc = "getEvent"
        /\ \/ StoreFault(w, "Get", "Event")
           \/ /\ SetProc(w, [p EXCEPT !.pc = "getKernel",
                                      !.ops = Log(p, "Get", "Event", events[p.req] # Nil)])
              /\ UNCHANGED envLeft
        /\ UNCHANGED <<variant, schemeOK, storeVars, metrics, emitted, clock, lastOK, calls, fn>>

\* r.Get(ctx, req.NamespacedName, event)
GetEvent(w) ==
    LET p == proc[w]
    IN  /\ p.pc = "getEvent"
        /\ \/ StoreFault(w, "Get", "Event")
           \/ /\ events[p.req] # Nil
              /\ SetProc(w, [p EXCEPT !.pc = "resolve", !.event = events[p.req],
                                      !.ops = Log(p, "Get", "Event", TRUE)])
              /\ UNCHANGED envLeft
           \/ /\ events[p.req] = Nil
              /\ SetProc(w, [p EXCEPT !.pc = "getKernel", !.ops = Log(p, "Get", "Event", FALSE)])
              /\ UNCHANGED envLeft
        /\ UNCHANGED <<variant, schemeOK, storeVars, metrics, emitted, clock, lastOK, calls, fn>>

\* kernelNameFromInvolvedObject that takes a missing label for an empty name
kernelNameLabelOptional(v, object, got, getErr) ==
    IF object.kind = "Pod" /\ getErr = "" /\ got # Nil
    THEN [name |-> MapGet(got[1].labels, RelayNameLabel(v)), err |-> ""]
    ELSE [name |-> "", err |-> IF getErr # "" THEN getErr ELSE "NotRelated"]

\* kernelNameFromInvolvedObject answering with the Pod's own name
kernelNameFromPodName(v, object, got, getErr) ==
    IF object.kind = "Pod" /\ getErr = "" /\ got # Nil
    THEN [name |-> got[1].name, err |-> ""]
    ELSE [name |-> "", err |-> "NotRelated"]

\* kernelNameFromInvolvedObject(c, object), given what the Get of the Pod returned:
\* got is Nil (not found), or the Pod; getErr is the error of a failed call
kernelNameFromInvolvedObject(v, object, got, getErr) ==
    IF object.kind = "Pod"
    THEN IF getErr # "" THEN [name |-> "", err |-> getErr]
         ELSE IF got = Nil THEN [name |-> "", err |-> "NotFound"]
         ELSE IF RelayNameLabel(v) \in DOMAIN got[1].labels
              THEN [name |-> got[1].labels[RelayNameLabel(v)], err |-> ""]
              ELSE [name |-> "", err |-> "NotRelated"]
    ELSE [name |-> "", err |-> "NotRelated"]

InvolvedKey(object) == <<object.namespace, object.name>>

\* kernelName, err := kernelNameFromInvolvedObject(r.Client, &event.InvolvedObject)
Resolve(w) ==
    LET p == proc[w]
        object == p.event[1].involvedObject
        got == IF InvolvedKey(object) \in Keys THEN pods[InvolvedKey(object)] ELSE Nil
    IN  /\ p.pc = "resolve"
        /\ \/ /\ object.kind = "Pod"
              /\ envLeft > 0
              /\ envLeft' = envLeft - 1
              /\ LET r == kernelNameFromInvolvedObject(variant, object, Nil, "StoreError")
                 IN  SetProc(w, Return([p EXCEPT !.resolved = Some(r),
                                                 !.ops = Log(p, "Get", "Pod", FALSE)], r.err))
           \/ /\ LET r == kernelNameFromInvolvedObject(variant, object, got, "")
                     q == [p EXCEPT !.resolved = Some(r),
                                    !.involvedPod = IF object.kind = "Pod" THEN got ELSE Nil,
                                    !.ops = IF object.kind = "Pod"
                                            THEN Log(p, "Get", "Pod", got # Nil) ELSE @]
                 IN  SetProc(w, IF r.err # "" THEN Return(q, r.err)
                                ELSE [q EXCEPT !.pc = "getInvolvedKernel"])
              /\ UNCHANGED envLeft
        /\ UNCHANGED <<variant, schemeOK, storeVars, metrics, emitted, clock, lastOK, calls, fn>>

\* strings.ToLower left out
KeepCase(kind) == kind

ToLower(kind) == CASE kind = "Pod" -> "pod" [] kind = "Node" -> "node" [] OTHER -> kind

\* r.Get(ctx, involvedKernelKey, involvedKernel) and the re-emission of the event
GetInvolvedKernel(w) ==
    LET p == proc[w]
        key == <<p.req[1], p.resolved[1].name>>
        found == IF key \in Keys THEN kernels[key] ELSE Nil
        ev == p.event[1]
    IN  /\ p.pc = "getInvolvedKernel"
        /\ \/ /\ envLeft > 0
              /\ envLeft' = envLeft - 1
              /\ SetProc(w, Return([p EXCEPT !.ops = Log(p, "Get", "Kernel", FALSE)],
                                   ignoreNotFound("StoreError")))
              /\ UNCHANGED emitted
           \/ /\ found = Nil
              /\ SetProc(w, Return([p EXCEPT !.ops = Log(p, "Get", "Kernel", FALSE)],
                                   ignoreNotFound("NotFound")))
              /\ UNCHANGED <<emitted, envLeft>>
           \/ /\ found # Nil
              /\ emitted' = Append(emitted,
                     [object |-> key, type |-> ev.type, reason |-> ev.reason,
                      message |-> <<"Reissued from ", ToLower(ev.involvedObject.kind), "/",
                                    ev.involvedObject.name, ": ", ev.message>>])
              /\ SetProc(w, Return([p EXCEPT !.ops = Log(p, "Get", "Kernel", TRUE)], ""))
              /\ UNCHANGED envLeft
        /\ UNCHANGED <<variant, schemeOK, storeVars, metrics, clock, lastOK, calls, fn>>

\* A fetch after which the v1beta1 engine sends the Update whether or not the
\* Kernel carries the updated label
AfterGetKernelAlwaysUpdate(v, inst) ==
    CASE v = "v1" -> IF MapGet(inst.labels, KernelIdleLabel) = "true" THEN "cull" ELSE "getPod"
      [] v = "v1beta1" -> "updateKernel"
      [] OTHER -> "getPod"

\* A fetch after which the idle branch is entered whenever the idle label is set,
\* whatever its value
AfterGetKernelAnyValue(v, inst) ==
    CASE v = "v1" -> IF KernelIdleLabel \in DOMAIN inst.labels THEN "cull" ELSE "getPod"
      [] v = "v1beta1" ->
            IF MapGet(inst.labels, KERNEL_UPDATED_LABEL_NAME) = KERNEL_UPDATED_LABEL_VALUE
            THEN "getPod" ELSE "updateKernel"
      [] OTHER -> "getPod"

\* What follows the fetch of the Kernel: the idle branch (v1), the Update of
\* updateKernelResource unless the Kernel carries the updated label (v1beta1),
\* or the Pod
AfterGetKernel(v, inst) ==
    CASE v = "v1" -> IF MapGet(inst.labels, KernelIdleLabel) = "true" THEN "cull" ELSE "getPod"
      [] v = "v1beta1" ->
            IF MapGet(inst.labels, KERNEL_UPDATED_LABEL_NAME) = KERNEL_UPDATED_LABEL_VALUE
            THEN "getPod" ELSE "updateKernel"
      [] OTHER -> "getPod"

\* r.Get(ctx, req.NamespacedName, instance)
GetKernel(w) ==
    LET p == proc[w]
    IN  /\ p.pc = "getKernel"
        /\ \/ /\ envLeft > 0
              /\ envLeft' = envLeft - 1
              /\ SetProc(w, Return([p EXCEPT !.ops = Log(p, "Get", "Kernel", FALSE)],
                                   ignoreNotFound("StoreError")))
           \/ /\ kernels[p.req] = Nil
              /\ SetProc(w, Return([p EXCEPT !.ops = Log(p, "Get", "Kernel", FALSE)],
                                   ignoreNotFound("NotFound")))
              /\ UNCHANGED envLeft
           \/ /\ kernels[p.req] # Nil
              /\ LET inst == DecodeKernel("instance", kernels[p.req][1])
                 IN  SetProc(w, [p EXCEPT
                         !.pc = AfterGetKernel(variant, inst),
                         !.instance = Some(inst),
                         !.fetched = kernels[p.req],
                         !.ops = Log(p, "Get", "Kernel", TRUE)])
              /\ UNCHANGED envLeft
        /\ UNCHANGED <<variant, schemeOK, storeVars, metrics, emitted, clock, lastOK, calls, fn>>

Inc(vec, k) == [vec EXCEPT ![k] = @ + 1]

\* time.Now(): the clock never runs backwards, and moves at most one tick between
\* two readings
Nows == {t \in clock..MaxClock : t <= clock + 1}

\* Where the idle branch of the v1 Reconcile leaves the call: it has no return
AfterCull(p) == [p EXCEPT !.pc = "getPod"]

\* The culling metrics touched although the Delete failed
CullMetricsAlways(m, key, now, deleted) ==
    [m EXCEPT !.KernelCullingCount = Inc(@, key),
              !.KernelCullingTimestamp = [@ EXCEPT ![key] = now]]

\* KernelCullingCount.Inc() and KernelCullingTimestamp.Set(t.Unix()), which follow
\* the early return on a failed Delete
CullMetrics(m, key, now, deleted) ==
    IF deleted
    THEN [m EXCEPT !.KernelCullingCount = Inc(@, key),
                   !.KernelCullingTimestamp = [@ EXCEPT ![key] = now]]
    ELSE m

\* Culling kernel if idle: t := time.Now(); r.Delete(ctx, instance); the two metrics
Cull(w) ==
    LET p == proc[w]
        key == <<p.instance[1].namespace, p.instance[1].name>>
    IN  /\ p.pc = "cull"
        /\ \E now \in Nows :
            /\ clock' = now
            /\ \/ /\ envLeft > 0
                  /\ envLeft' = envLeft - 1
                  /\ SetProc(w, Return([p EXCEPT !.t = now,
                                                 !.ops = Log(p, "Delete", "Kernel", FALSE)],
                                       "StoreError"))
                  /\ metrics' = CullMetrics(metrics, key, now, FALSE)
                  /\ UNCHANGED kernels
               \/ /\ LET deleted == kernels[key] # Nil
                         q == [p EXCEPT !.t = now,
                                        !.ops = Log(p, "Delete", "Kernel", deleted)]
                     IN  /\ kernels' = [kernels EXCEPT ![key] = Nil]
                         /\ metrics' = CullMetrics(metrics, key, now, deleted)
                         /\ SetProc(w, IF deleted THEN AfterCull(q) ELSE Return(q, "NotFound"))
                  /\ UNCHANGED envLeft
        /\ UNCHANGED <<variant, schemeOK, pods, services, events, emitted, lastOK, calls, fn>>

\* The step after the Pod is found or created
AfterPod(v) ==
    CASE v = "v1alpha1" -> "getService"
      [] v = "v1beta1" -> "cullBeta"
      [] OTHER -> "updateStatus"

\* A Get that is never taken for a miss: the create branch is not entered
IsNotFoundNever(stored) == FALSE

\* A Get that is taken for a miss whatever it found
IsNotFoundAlways(stored) == TRUE

\* err != nil && apierrs.IsNotFound(err) after a Get of the stored object
IsNotFound(stored) == stored = Nil

\* pod := r.generatePod(instance); ctrl.SetControllerReference; r.Get(ctx, ..., foundPod)
GetPod(w) ==
    LET p == proc[w]
        inst == p.instance[1]
        key == <<inst.namespace, inst.name>>
    IN  /\ p.pc = "getPod"
        /\ \E gen \in { generatePod(variant, inst, order) :
                          order \in IF variant = "v1alpha1" THEN PortOrders
                                    ELSE {CanonicalOrder} } :
               \/ /\ ~schemeOK
                  /\ SetProc(w, Return([p EXCEPT !.pod = Some(gen)], "SchemeError"))
                  /\ UNCHANGED envLeft
               \/ /\ schemeOK
                  /\ envLeft > 0
                  /\ envLeft' = envLeft - 1
                  /\ SetProc(w, Return([p EXCEPT !.pod = Some(SetControllerReference(inst, gen)),
                                                 !.foundPod = Some(ZeroPod),
                                                 !.ops = Log(p, "Get", "Pod", FALSE)],
                                       "StoreError"))
               \/ /\ schemeOK
                  /\ SetProc(w, [p EXCEPT
                         !.pc = IF IsNotFound(pods[key]) THEN "createPod"
                                ELSE AfterPod(variant),
                         !.pod = Some(SetControllerReference(inst, gen)),
                         !.foundPod = IF pods[key] = Nil THEN Some(ZeroPod)
                                      ELSE Some(DecodePod("foundPod", pods[key][1])),
                         !.ops = Log(p, "Get", "Pod", pods[key] # Nil)])
                  /\ UNCHANGED envLeft
        /\ UNCHANGED <<variant, schemeOK, storeVars, metrics, emitted, clock, lastOK, calls, fn>>

\* A failed create that leaves no event behind
NoCreationFailedEvents(v, inst, e) == <<>>

\* r.EventRecorder.Eventf(instance, Warning, "PodCreationFailed", ...), v1 only
CreationFailedEvents(v, inst, e) ==
    IF v = "v1"
    THEN <<[object |-> <<inst.namespace, inst.name>>, type |-> "Warning",
            reason |-> "PodCreationFailed",
            message |-> <<"Failed to create pod ", inst.name, ":", e>>]>>
    ELSE <<>>

\* A failed create after which the call goes on to its next step
AfterCreateFailedGoesOn(p, e) == [p EXCEPT !.pc = AfterPod(variant)]

\* log.Error(err, "unable to create pod"); ...; return ctrl.Result{}, err
AfterCreateFailed(p, e) == Return(p, e)

\* KernelCreation.Inc(); r.Create(ctx, pod); on failure KernelFailCreation.Inc()
CreatePod(w) ==
    LET p == proc[w]
        inst == p.instance[1]
        pod == p.pod[1]
        key == <<pod.namespace, pod.name>>
        Failed(e) ==
            /\ metrics' = [metrics EXCEPT !.KernelCreation = Inc(@, pod.namespace),
                                          !.KernelFailCreation = Inc(@, pod.namespace)]
            /\ emitted' = emitted \o CreationFailedEvents(variant, inst, e)
            /\ SetProc(w, AfterCreateFailed([p EXCEPT !.ops = Log(p, "Create", "Pod", FALSE)], e))
            /\ UNCHANGED pods
    IN  /\ p.pc = "createPod"
        /\ \/ /\ envLeft > 0
              /\ envLeft' = envLeft - 1
              /\ Failed("StoreError")
           \/ /\ pods[key] # Nil
              /\ Failed("AlreadyExists")
              /\ UNCHANGED envLeft
           \/ /\ pods[key] = Nil
              /\ pods' = [pods EXCEPT ![key] = Some(pod)]
              /\ metrics' = [metrics EXCEPT !.KernelCreation = Inc(@, pod.namespace)]
              /\ SetProc(w, [p EXCEPT !.pc = AfterPod(variant),
                                      !.created = @ + 1,
                                      !.ops = Log(p, "Create", "Pod", TRUE)])
              /\ UNCHANGED <<emitted, envLeft>>
        /\ UNCHANGED <<variant, schemeOK, kernels, services, events, clock, lastOK, calls, fn>>

\* service := r.generateService(instance, pod); SetControllerReference; r.Get(...)
GetService(w) ==
    LET p == proc[w]
        inst == p.instance[1]
        key == <<inst.namespace, inst.name>>
    IN  /\ p.pc = "getService"
        /\ \E svc \in {SetControllerReference(inst, generateService(inst, p.pod[1]))} :
           \/ /\ envLeft > 0
              /\ envLeft' = envLeft - 1
              /\ SetProc(w, Return([p EXCEPT !.service = Some(svc),
                                             !.ops = Log(p, "Get", "Service", FALSE)],
                                   "StoreError"))
           \/ /\ services[key] = Nil
              /\ SetProc(w, [p EXCEPT !.pc = "createService", !.service = Some(svc),
                                      !.ops = Log(p, "Get", "Service", FALSE)])
              /\ UNCHANGED envLeft
           \/ /\ services[key] # Nil
              /\ \E c \in {CopyServiceFields(svc, services[key][1])} :
                     SetProc(w, [p EXCEPT
                         !.pc = IF c.requireUpdate THEN "updateService" ELSE "updateStatus",
                         !.service = Some(svc),
                         !.foundService = Some([fetched |-> services[key][1], obj |-> c.to]),
                         !.ops = Log(p, "Get", "Service", TRUE)])
              /\ UNCHANGED envLeft
        /\ UNCHANGED <<variant, schemeOK, storeVars, metrics, emitted, clock, lastOK, calls, fn>>

\* err = r.Create(ctx, service); justCreated = true
CreateService(w) ==
    LET p == proc[w]
        svc == p.service[1]
        key == <<svc.namespace, svc.name>>
    IN  /\ p.pc = "createService"
        /\ \/ /\ envLeft > 0
              /\ envLeft' = envLeft - 1
              /\ SetProc(w, Return([p EXCEPT !.justCreated = TRUE,
                                             !.ops = Log(p, "Create", "Service", FALSE)],
                                   "StoreError"))
              /\ UNCHANGED services
           \/ /\ LET created == services[key] = Nil
                     q == [p EXCEPT !.justCreated = TRUE,
                                    !.ops = Log(p, "Create", "Service", created)]
                 IN  /\ services' = IF created
                                    THEN [services EXCEPT ![key] = Some(StoredService(svc))]
                                    ELSE services
                     /\ SetProc(w, IF created THEN [q EXCEPT !.pc = "updateStatus"]
                                   ELSE Return(q, "AlreadyExists"))
              /\ UNCHANGED envLeft
        /\ UNCHANGED <<variant, schemeOK, kernels, pods, events, metrics, emitted, clock,
                       lastOK, calls, fn>>

\* What an Update of `obj`, read as `fetched`, returns against the stored object
UpdateError(stored, fetched) ==
    IF stored = Nil THEN "NotFound"
    ELSE IF stored[1] # fetched THEN "Conflict"
    ELSE ""

\* err = r.Update(ctx, foundService), reached when CopyServiceFields reported a change
UpdateService(w) ==
    LET p == proc[w]
        found == p.foundService[1]
        key == <<found.obj.namespace, found.obj.name>>
    IN  /\ p.pc = "updateService"
        /\ \/ /\ envLeft > 0
              /\ envLeft' = envLeft - 1
              /\ SetProc(w, Return([p EXCEPT !.ops = Log(p, "Update", "Service", FALSE)],
                                   "StoreError"))
              /\ UNCHANGED services
           \/ /\ LET e == UpdateError(services[key], found.fetched)
                     q == [p EXCEPT !.ops = Log(p, "Update", "Service", e = "")]
                 IN  /\ services' = IF e = "" THEN [services EXCEPT ![key] = Some(found.obj)]
                                    ELSE services
                     /\ SetProc(w, IF e = "" THEN [q EXCEPT !.pc = "updateStatus"]
                                   ELSE Return(q, e))
              /\ UNCHANGED envLeft
        /\ UNCHANGED <<variant, schemeOK, kernels, pods, events, metrics, emitted, clock,
                       lastOK, calls, fn>>

\* updateKernelStatus: kernel.Status = createKernelStatus(...); r.Status().Update
UpdateStatus(w) ==
    LET p == proc[w]
        inst == p.instance[1]
        key == <<inst.namespace, inst.name>>
        found == p.foundPod[1]
    IN  /\ p.pc = "updateStatus"
        /\ \E now \in Nows :
           \E status \in {createKernelStatus(variant, inst, found,
                              NowSeqs(Len(found.status.conditions), now, now, 0))} :
           LET q == [p EXCEPT !.instance = Some([inst EXCEPT !.status = status])]
           IN  /\ clock' = now
               /\ \/ /\ envLeft > 0
                     /\ envLeft' = envLeft - 1
                     /\ SetProc(w, Return([q EXCEPT !.ops = Log(p, "Update", "KernelStatus", FALSE)],
                                          "StoreError"))
                     /\ UNCHANGED kernels
                  \/ /\ LET e == UpdateError(kernels[key], p.fetched[1])
                        IN  /\ kernels' =
                                IF e = ""
                                THEN [kernels EXCEPT ![key] =
                                         Some([p.fetched[1] EXCEPT
                                                  !.status = EncodeKernelStatus(status)])]
                                ELSE kernels
                            /\ SetProc(w, Return([q EXCEPT
                                   !.ops = Log(p, "Update", "KernelStatus", e = "")], e))
                     /\ UNCHANGED envLeft
        /\ UNCHANGED <<variant, schemeOK, pods, services, events, metrics, emitted, lastOK,
                       calls, fn>>

\* updateKernelResource (v1beta1): annotations, updated label and default restart
\* policy set on the instance, then r.Update(ctx, instance)
UpdateKernel(w) ==
    LET p == proc[w]
        inst == updateKernelResource(p.instance[1])
        key == <<inst.namespace, inst.name>>
    IN  /\ p.pc = "updateKernel"
        /\ \/ /\ envLeft > 0
              /\ envLeft' = envLeft - 1
              /\ SetProc(w, Return([p EXCEPT !.instance = Some(inst),
                                             !.ops = Log(p, "Update", "Kernel", FALSE)],
                                   "StoreError"))
              /\ UNCHANGED kernels
           \/ /\ LET e == UpdateError(kernels[key], p.fetched[1])
                     stored == updateKernelResource(p.fetched[1])
                     q == [p EXCEPT !.instance = Some(inst),
                                    !.ops = Log(p, "Update", "Kernel", e = "")]
                 IN  /\ kernels' = IF e = "" THEN [kernels EXCEPT ![key] = Some(stored)]
                                   ELSE kernels
                     /\ SetProc(w, IF e = "" THEN [q EXCEPT !.pc = "getPod",
                                                            !.fetched = Some(stored)]
                                   ELSE Return(q, e))
              /\ UNCHANGED envLeft
        /\ UNCHANGED <<variant, schemeOK, pods, services, events, metrics, emitted, clock,
                       lastOK, calls, fn>>

\* Clean up kernel if annotation jupyter.org/kernel-deletion=True (v1beta1):
\* r.Delete(ctx, instance); t := time.Now(); the two metrics under foundPod's
\* namespace and name; return ctrl.Result{}, nil
CullBeta(w) ==
    LET p == proc[w]
        inst == p.instance[1]
        key == <<inst.namespace, inst.name>>
        found == <<p.foundPod[1].namespace, p.foundPod[1].name>>
    IN  /\ p.pc = "cullBeta"
        /\ \/ /\ MapGet(inst.annotations, aKernelDeletion) # "True"
              /\ SetProc(w, [p EXCEPT !.pc = "updateStatus"])
              /\ UNCHANGED <<kernels, metrics, clock, envLeft>>
           \/ /\ MapGet(inst.annotations, aKernelDeletion) = "True"
              /\ envLeft > 0
              /\ envLeft' = envLeft - 1
              /\ SetProc(w, Return([p EXCEPT !.ops = Log(p, "Delete", "Kernel", FALSE)],
                                   "StoreError"))
              /\ UNCHANGED <<kernels, metrics, clock>>
           \/ /\ MapGet(inst.annotations, aKernelDeletion) = "True"
              /\ kernels[key] = Nil
              /\ SetProc(w, Return([p EXCEPT !.ops = Log(p, "Delete", "Kernel", FALSE)],
                                   "NotFound"))
              /\ UNCHANGED <<kernels, metrics, clock, envLeft>>
           \/ /\ MapGet(inst.annotations, aKernelDeletion) = "True"
              /\ kernels[key] # Nil
              /\ \E now \in Nows :
                    /\ clock' = now
                    /\ kernels' = [kernels EXCEPT ![key] = Nil]
                    /\ metrics' = CullMetrics(metrics, found, now, TRUE)
                    /\ SetProc(w, Return([p EXCEPT !.t = now,
                                                   !.ops = Log(p, "Delete", "Kernel", TRUE)],
                                         ""))
              /\ UNCHANGED envLeft
        /\ UNCHANGED <<variant, schemeOK, pods, services, events, emitted, lastOK, calls, fn>>

Did(p, verb, kind) ==
    \E i \in 1..Len(p.ops) : p.ops[i] = [verb |-> verb, kind |-> kind, ok |-> TRUE]

Tried(p, verb, kind) ==
    \E i \in 1..Len(p.ops) : p.ops[i].verb = verb /\ p.ops[i].kind = kind

\* The call that just returned leaves the cluster reconciled for its Kernel
Settled(p) ==
    /\ p.err = ""
    /\ p.quiet
    /\ Did(p, "Update", "KernelStatus")
    /\ MapGet(p.instance[1].labels, KernelIdleLabel) # "true"

\* Reconcile returns; the worker is free again
Finish(w) ==
    /\ proc[w].pc = "done"
    /\ SetProc(w, [IdleProc EXCEPT !.created = proc[w].created])
    /\ lastOK' = IF Settled(proc[w]) THEN Some(proc[w].req) ELSE Nil
    /\ UNCHANGED <<variant, schemeOK, storeVars, metrics, emitted, clock, calls, envLeft, fn>>

(***************************************************************************)
(* The rest of the cluster: users, the kubelet, the garbage collector.     *)
(***************************************************************************)
\* A change of the cluster: it uses up the budget and ends any quiet period
Disturb ==
    /\ envLeft > 0
    /\ envLeft' = envLeft - 1
    /\ lastOK' = Nil
    /\ proc' = [w \in Procs |-> [proc[w] EXCEPT !.second = FALSE, !.quiet = FALSE]]

UidsInUse ==
    {0} \cup {kernels[k][1].uid : k \in {x \in Keys : kernels[x] # Nil}}
        \cup {pods[k][1].owner[1].uid : k \in {x \in Keys : pods[x] # Nil /\ pods[x][1].owner # Nil}}
        \cup {proc[w].instance[1].uid : w \in {x \in Procs : proc[x].instance # Nil}}

FreshUid == 1 + (CHOOSE u \in UidsInUse : \A x \in UidsInUse : x <= u)

\* A user creates the Kernel
EnvCreateKernel ==
    /\ kernels[Foo] = Nil
    /\ Disturb
    /\ kernels' = [kernels EXCEPT ![Foo] =
           Some(Kernel(Foo[1], Foo[2], FreshUid, EmptyMap, [x \in {} |-> ""], EngineSpec,
                       [EmptyKernelStatus EXCEPT !.readyReplicas = 0]))]
    /\ UNCHANGED <<variant, schemeOK, pods, services, events, metrics, emitted, clock, calls, fn>>

\* A user deletes the Kernel
EnvDeleteKernel ==
    /\ kernels[Foo] # Nil
    /\ Disturb
    /\ kernels' = [kernels EXCEPT ![Foo] = Nil]
    /\ UNCHANGED <<variant, schemeOK, pods, services, events, metrics, emitted, clock, calls, fn>>

\* The monitor sidecar marks the Kernel idle
EnvMarkIdle ==
    /\ kernels[Foo] # Nil
    /\ MapGet(kernels[Foo][1].labels, KernelIdleLabel) # "true"
    /\ Disturb
    /\ kernels' = [kernels EXCEPT ![Foo] =
           Some([kernels[Foo][1] EXCEPT !.labels = MapPut(@, KernelIdleLabel, "true")])]
    /\ UNCHANGED <<variant, schemeOK, pods, services, events, metrics, emitted, clock, calls, fn>>

\* The scheduler and the kubelet report on the Pod; container statuses, once
\* reported, stay
EnvPodStatus ==
    /\ pods[Foo] # Nil
    /\ \E st \in {PendingStatus, RunningStatus(pods[Foo][1].spec.containers)} :
        /\ st # pods[Foo][1].status
        /\ Len(pods[Foo][1].status.containerStatuses) > 0 => Len(st.containerStatuses) > 0
        /\ pods' = [pods EXCEPT ![Foo] = Some([pods[Foo][1] EXCEPT !.status = st])]
    /\ Disturb
    /\ UNCHANGED <<variant, schemeOK, kernels, services, events, metrics, emitted, clock, calls, fn>>

\* The Pod goes away: a user deletes it, or the garbage collector does
EnvDeletePod ==
    /\ pods[Foo] # Nil
    /\ Disturb
    /\ pods' = [pods EXCEPT ![Foo] = Nil]
    /\ UNCHANGED <<variant, schemeOK, kernels, services, events, metrics, emitted, clock, calls, fn>>

\* An Event about the Pod appears under the Kernel's name, or expires
EnvEvent ==
    /\ Disturb
    /\ events' = [events EXCEPT ![Foo] = IF @ = Nil THEN Some(PodEvent(Foo)) ELSE Nil]
    /\ UNCHANGED <<variant, schemeOK, kernels, pods, services, metrics, emitted, clock, calls, fn>>

\* A user labels the Service
EnvLabelService ==
    /\ services[Foo] # Nil
    /\ "team" \notin DOMAIN services[Foo][1].labels
    /\ Disturb
    /\ services' = [services EXCEPT ![Foo] =
           Some([services[Foo][1] EXCEPT !.labels = MapPut(@, "team", "a")])]
    /\ UNCHANGED <<variant, schemeOK, kernels, pods, events, metrics, emitted, clock, calls, fn>>

\* The culling service marks the Kernel for deletion (v1beta1)
EnvMarkCull ==
    /\ kernels[Foo] # Nil
    /\ MapGet(kernels[Foo][1].annotations, aKernelDeletion) # "True"
    /\ Disturb
    /\ kernels' = [kernels EXCEPT ![Foo] =
           Some([kernels[Foo][1] EXCEPT !.annotations = MapPut(@, aKernelDeletion, "True")])]
    /\ UNCHANGED <<variant, schemeOK, pods, services, events, metrics, emitted, clock, calls, fn>>

Environment ==
    \/ EnvCreateKernel
    \/ EnvDeleteKernel
    \/ EnvMarkIdle
    \/ EnvPodStatus
    \/ EnvDeletePod
    \/ EnvEvent
    \/ EnvLabelService

\* The statements of Reconcile, from the Event lookup to the return
Steps(w) ==
    \/ GetEvent(w)
    \/ Resolve(w)
    \/ GetInvolvedKernel(w)
    \/ GetKernel(w)
    \/ Cull(w)
    \/ GetPod(w)
    \/ CreatePod(w)
    \/ GetService(w)
    \/ CreateService(w)
    \/ UpdateService(w)
    \/ UpdateStatus(w)
    \/ Finish(w)

Reconcile(w) ==
    \/ \E k \in Requests : Start(w, k)
    \/ Steps(w)

Next == (\E w \in Workers : Reconcile(w)) \/ Environment

Spec == InitEngine /\ [][Next]_vars

(***************************************************************************)
(* Two workers on the same key (MaxConcurrentReconciles = 2, or a second   *)
(* replica of the controller): every interleaving of their store calls.    *)
(* The store has no faults of its own here: what it refuses, it refuses     *)
(* because of what the other call wrote.                                   *)
(***************************************************************************)
InitConc ==
    /\ InitCluster
    /\ envLeft = 0
    /\ schemeOK
    /\ events[Foo] # Some(NodeEvent(Foo))

NextConc == \E w \in Procs : Reconcile(w)

SpecConc == InitConc /\ [][NextConc]_vars

(***************************************************************************)
(* The controller left running.  The work queue keeps handing the key to   *)
(* the worker (the watches on Kernels and on owned Pods, and the requeue   *)
(* after every returned error), the worker runs each call to its return,   *)
(* and the garbage collector removes Pods whose owner is gone.  The store  *)
(* fails, and the rest of the cluster changes, only as long as the budget  *)
(* lasts: from then on every store call succeeds.                          *)
(***************************************************************************)
\* The events the recorder holds at most before the queue is left alone
MaxEmitted == 2

\* The queue hands the key to the worker again
Enqueue(w, k) ==
    /\ Len(emitted) < MaxEmitted
    /\ Deliver(w, k)
    /\ UNCHANGED calls

\* The Pods whose controller owner reference points at no Kernel in the store
Orphans ==
    {k \in Keys : /\ pods[k] # Nil
                  /\ pods[k][1].owner # Nil
                  /\ \A x \in Keys : kernels[x] # Nil =>
                                        kernels[x][1].uid # pods[k][1].owner[1].uid}

\* The garbage collector deletes a Pod whose owner is gone
GarbageCollect ==
    /\ \E k \in Orphans : pods' = [pods EXCEPT ![k] = Nil]
    /\ lastOK' = Nil
    /\ proc' = [w \in Procs |-> [proc[w] EXCEPT !.second = FALSE, !.quiet = FALSE]]
    /\ UNCHANGED <<variant, schemeOK, kernels, services, events, metrics, emitted, clock,
                   calls, envLeft, fn>>

ReconcileLive(w) ==
    \/ \E k \in Requests : Enqueue(w, k)
    \/ GetEvent(w)
    \/ Resolve(w)
    \/ GetInvolvedKernel(w)
    \/ GetKernel(w)
    \/ Cull(w)
    \/ GetPod(w)
    \/ CreatePod(w)
    \/ UpdateStatus(w)
    \/ Finish(w)

\* The rest of the cluster as the v1 engine meets it: there is no Service
EnvironmentLive ==
    \/ EnvCreateKernel
    \/ EnvDeleteKernel
    \/ EnvMarkIdle
    \/ EnvPodStatus
    \/ EnvDeletePod
    \/ EnvEvent

NextLive == (\E w \in Workers : ReconcileLive(w)) \/ EnvironmentLive \/ GarbageCollect

Fairness ==
    /\ WF_vars(\E w \in Workers : ReconcileLive(w))
    /\ WF_vars(GarbageCollect)

\* The v1 engine; main registers the Kernel types with the scheme before the
\* manager starts
InitLive == InitClusterOf({"v1"}) /\ envLeft = MaxEnv /\ schemeOK

SpecLive == InitLive /\ [][NextLive]_vars /\ Fairness

(***************************************************************************)
(* The three engines side by side.  In the v1beta1 engine the Kernel is    *)
(* updated once (annotation, label, default restart policy), there is no   *)
(* Service, and culling goes by an annotation, after the Pod.              *)
(***************************************************************************)
InitAll == InitClusterOf(Variants) /\ envLeft = MaxEnv

\* Somebody sets the shutdown marker to a value the engine does not act on: the
\* idle label to "True", or the culling annotation (v1beta1) to "true"
EnvMarkOther ==
    /\ kernels[Foo] # Nil
    /\ Disturb
    /\ kernels' = [kernels EXCEPT ![Foo] =
           Some([kernels[Foo][1] EXCEPT
                    !.labels = IF variant = "v1beta1" THEN @
                               ELSE MapPut(@, KernelIdleLabel, "True"),
                    !.annotations = IF variant = "v1beta1"
                                    THEN MapPut(@, aKernelDeletion, "true") ELSE @])]
    /\ UNCHANGED <<variant, schemeOK, pods, services, events, metrics, emitted, clock, calls, fn>>

\* The steps of the three Reconcile functions
ReconcileAll(w) ==
    \/ Reconcile(w)
    \/ UpdateKernel(w)
    \/ CullBeta(w)

NextAll == (\E w \in Workers : ReconcileAll(w)) \/ Environment \/ EnvMarkCull \/ EnvMarkOther

SpecAll == InitAll /\ [][NextAll]_vars

(***************************************************************************)
(* generateService on the Pod generatePod returns (Service variant).       *)
(***************************************************************************)
MaxTemplateEnv == 2

\* Environment entries a template may give the kernel container: two socket
\* variables, one of them a second time with another value, and a two-digit one
TemplateEnvPool ==
    { EnvVar("SHELL_PORT", <<"6","0","0","0">>),
      EnvVar("SHELL_PORT", <<"6","0","0","1">>),
      EnvVar("HB_PORT", <<"7","0","0","0">>),
      EnvVar("CONTROL_PORT", <<"8","0">>) }

ServiceKernels ==
    { Kernel("default", n, 1, EmptyMap, [x \in {} |-> ""],
             [template |-> [containers |-> <<[MainContainer EXCEPT !.env = @ \o e]>>,
                            restartPolicy |-> ""],
              idleTimeoutSeconds |-> 0, cullingIntervalSeconds |-> 0],
             EmptyKernelStatus)
      : n \in Names, e \in SeqsUpTo(TemplateEnvPool, MaxTemplateEnv) }

InitService ==
    /\ EngineOff
    /\ variant = "v1alpha1"
    /\ clock = 1
    /\ fn \in { [op |-> "service", in |-> [instance |-> k, order |-> o], out |-> Nil]
                : k \in ServiceKernels, o \in PortOrders }

\* pod := r.generatePod(instance); service := r.generateService(instance, pod)
GenServiceCall ==
    /\ fn.op = "service"
    /\ fn.out = Nil
    /\ \E pod \in {generatePod(variant, fn.in.instance, fn.in.order)} :
           fn' = [fn EXCEPT !.out = Some([pod |-> pod,
                                          service |-> generateService(fn.in.instance, pod)])]
    /\ UNCHANGED <<variant, clock, engineVars>>

SpecService == InitService /\ [][GenServiceCall]_vars

(***************************************************************************)
(* CopyServiceFields on pairs of Services: `from` as a generator may have  *)
(* built it, `to` as the store may hold it.                                *)
(***************************************************************************)
CopyLabelMaps ==
    { EmptyMap, MapPut(EmptyMap, "team", "a"), MapPut(EmptyMap, "team", "b"),
      MapPut(EmptyMap, "team", "") }

CopyAnnotationMaps == { EmptyMap, MapPut(EmptyMap, "note", "x") }

CopyServices ==
    LET kernel == Kernel("default", "foo", 1, EmptyMap, EmptyMap, EngineSpec, EmptyKernelStatus)
        svc == generateService(kernel, generatePod("v1alpha1", kernel, CanonicalOrder))
    IN  { [svc EXCEPT !.labels = l, !.annotations = a, !.spec.selector = s, !.spec.ports = p]
          : l \in CopyLabelMaps, a \in CopyAnnotationMaps,
            s \in {svc.spec.selector, MapPut(EmptyMap, AlphaGeneratorNameLabel, "bar")},
            p \in {svc.spec.ports, <<>>} }

InitCopy ==
    /\ EngineOff
    /\ variant = "v1alpha1"
    /\ clock = 1
    /\ fn \in { [op |-> "copy", in |-> [from |-> f, to |-> StoredService(t)], out |-> Nil]
                : f \in CopyServices, t \in CopyServices }

\* reconcilehelper.CopyServiceFields(service, foundService)
CopyServiceFieldsCall ==
    /\ fn.op = "copy"
    /\ fn.out = Nil
    /\ fn' = [fn EXCEPT !.out = Some(CopyServiceFields(fn.in.from, fn.in.to))]
    /\ UNCHANGED <<variant, clock, engineVars>>

SpecCopy == InitCopy /\ [][CopyServiceFieldsCall]_vars

(***************************************************************************)
(* The metrics collector: Collect calls scrape, which lists the Pods and   *)
(* sets the running-kernels gauge.  A namespace without a series reads 0.  *)
(***************************************************************************)
\* The label scrape reads in each variant
ScrapeNameLabel(v) ==
    CASE v = "v1" -> "jupyrator.org/Kernel-name"
      [] v = "v1beta1" -> KERNEL_NAME_LABEL_NAME
      [] v = "v1alpha1" -> "Kernel-name"

\* if name, ok := v.GetLabels()[label]; ok && name == v.Name { cache[v.Namespace] += 1 }
ScrapeCount(items, label, ns) ==
    Cardinality({pod \in items : /\ pod.namespace = ns
                                 /\ label \in DOMAIN pod.labels
                                 /\ pod.labels[label] = pod.name})

\* scrape(): the gauge afterwards.  Only v1beta1 resets it, and not when the
\* List came back empty; the namespaces of the cache are then set
scrape(v, items, gauge, listOK) ==
    IF ~listOK THEN gauge
    ELSE IF v = "v1beta1" /\ items = {} THEN gauge
    ELSE [ns \in DOMAIN gauge |->
             IF ScrapeCount(items, ScrapeNameLabel(v), ns) > 0
             THEN ScrapeCount(items, ScrapeNameLabel(v), ns)
             ELSE IF v = "v1beta1" THEN 0 ELSE gauge[ns]]

\* The Pods a List returns
PodItems == {pods[k][1] : k \in {x \in Keys : pods[x] # Nil}}

\* Pods that come and go between scrapes: unlabelled, or labelled with their own
\* or another name, under the label scrape reads or under the v1 name label
ScrapePods(v, k) ==
    { [ZeroPod EXCEPT !.name = k[2], !.namespace = k[1], !.labels = l]
      : l \in {EmptyMap} \cup { MapPut(EmptyMap, key, val)
                                 : key \in {ScrapeNameLabel(v), KernelNameLabel},
                                   val \in {k[2], "zed"} } }

InitScrape ==
    /\ EngineOff
    /\ variant \in Variants
    /\ clock = 1
    /\ fn = [op |-> "none", in |-> Nil, out |-> Nil]

PodAppears ==
    \E k \in Keys :
        /\ pods[k] = Nil
        /\ \E pod \in ScrapePods(variant, k) : pods' = [pods EXCEPT ![k] = Some(pod)]
        /\ fn' = [op |-> "pods", in |-> Nil, out |-> Nil]
        /\ UNCHANGED <<variant, clock, schemeOK, kernels, services, events, metrics, emitted,
                       proc, lastOK, calls, envLeft>>

PodGoes ==
    \E k \in Keys :
        /\ pods[k] # Nil
        /\ pods' = [pods EXCEPT ![k] = Nil]
        /\ fn' = [op |-> "pods", in |-> Nil, out |-> Nil]
        /\ UNCHANGED <<variant, clock, schemeOK, kernels, services, events, metrics, emitted,
                       proc, lastOK, calls, envLeft>>

\* Collect: m.scrape(), whose List succeeds or fails
Scrape ==
    \E listOK \in BOOLEAN :
        /\ metrics' = [metrics EXCEPT
                          !.runningKernels = scrape(variant, PodItems, @, listOK)]
        /\ fn' = [op |-> "scrape", in |-> Some(listOK), out |-> Some(PodItems)]
        /\ UNCHANGED <<variant, clock, schemeOK, kernels, pods, services, events, emitted,
                       proc, lastOK, calls, envLeft>>

NextScrape == PodAppears \/ PodGoes \/ Scrape

SpecScrape == InitScrape /\ [][NextScrape]_vars

(***************************************************************************)
(* Properties.                                                             *)
(***************************************************************************)
GenDone == fn.op = "gen" /\ fn.out # Nil
StatusDone == fn.op = "status" /\ fn.out # Nil

\* C5 (annotation filtering): the generated Pod's annotations are exactly the
\* Kernel annotations whose key contains neither "kubectl" nor "kernel"
\* (case-sensitive), each with its value unchanged, and nothing else.
C5_AnnotationFiltering ==
    GenDone =>
        LET ann == fn.in.instance.annotations
            got == fn.out[1].annotations
        IN  /\ DOMAIN got = {k \in DOMAIN ann : ~Contains(k, sKubectl) /\ ~Contains(k, sKernel)}
            /\ \A k \in DOMAIN got : got[k] = ann[k]

C5_Witness ==
    /\ GenDone
    /\ variant = "v1"
    /\ DOMAIN fn.in.instance.annotations = {aKubectl, aKernelId, aTeam, aKernelUpper, aKubect}
    /\ fn.in.instance.annotations[aTeam] = "b"
    /\ DOMAIN fn.out[1].annotations = {aTeam, aKernelUpper, aKubect}

\* The fixed name label of each variant
NameLabelOf(v) ==
    CASE v = "v1" -> KernelNameLabel
      [] v = "v1beta1" -> KERNEL_NAME_LABEL_NAME
      [] v = "v1alpha1" -> AlphaGeneratorNameLabel

\* C6 (name label): the generated Pod's labels are the Kernel's labels plus the
\* fixed name label, and the Pod's name-label value is the Kernel's name,
\* whatever labels the Kernel carries.
C6_NameLabel ==
    GenDone =>
        LET kl == fn.in.instance.labels
            pl == fn.out[1].labels
            nl == NameLabelOf(variant)
        IN  /\ DOMAIN pl = (DOMAIN kl) \cup {nl}
            /\ pl[nl] = fn.in.instance.name
            /\ \A k \in (DOMAIN kl) \ {nl} : pl[k] = kl[k]

\* C7 (container state, match): when the Pod's status is not empty and its
\* container-status list has an entry named after the Kernel, the projected
\* containerState is that entry's state, whatever state was recorded before.
C7_ContainerStateMatch ==
    (StatusDone /\ fn.in.pod.status # EmptyPodStatus) =>
        LET cs == fn.in.pod.status.containerStatuses
        IN  \A i \in 1..Len(cs) :
                cs[i].name = fn.in.kernel.name =>
                    EncodeState(fn.out[1].containerState) = cs[i].state

C7_Witness ==
    /\ StatusDone
    /\ fn.in.kernel.status.containerState = StRunning
    /\ Len(fn.in.pod.status.containerStatuses) = 2
    /\ fn.in.pod.status.containerStatuses[2] = [name |-> "foo", state |-> StRunning]
    /\ EncodeState(fn.out[1].containerState) = StRunning

\* C9 (conditions): a Pod with N conditions projects to exactly N Kernel
\* conditions in the same order with equal type/status/reason/message; a
\* non-zero probe or transition time is copied, a zero one is replaced by a
\* non-zero time no earlier than the time the call was made.
C9_Conditions ==
    StatusDone =>
        LET pc == fn.in.pod.status.conditions
            kc == fn.out[1].conditions
            TimeOK(from, to) ==
                IF from # 0 THEN to = from ELSE to # 0 /\ to >= fn.in.t0
        IN  /\ Len(kc) = Len(pc)
            /\ \A i \in 1..Len(pc) :
                /\ kc[i].type = pc[i].type
                /\ kc[i].status = pc[i].status
                /\ kc[i].reason = pc[i].reason
                /\ kc[i].message = pc[i].message
                /\ TimeOK(pc[i].lastProbeTime, kc[i].lastProbeTime)
                /\ TimeOK(pc[i].lastTransitionTime, kc[i].lastTransitionTime)

C9_Witness ==
    /\ StatusDone
    /\ Len(fn.in.pod.status.conditions) = 2
    /\ fn.in.pod.status.conditions[1].lastProbeTime = 0
    /\ fn.in.pod.status.conditions[1].lastTransitionTime = 1
    /\ fn.in.pod.status.conditions[2].lastProbeTime = 3
    /\ fn.out[1].conditions[1].lastProbeTime = 3
    /\ fn.out[1].conditions[1].lastTransitionTime = 1
    /\ fn.out[1].conditions[2].lastProbeTime = 3

IdleFetched(p) ==
    p.instance # Nil /\ MapGet(p.instance[1].labels, KernelIdleLabel) = "true"

LastOp(p) == IF Len(p.ops) = 0 THEN Nil ELSE Some(p.ops[Len(p.ops)])

\* C1 (idempotence): a Reconcile of a Kernel without idle marker that starts
\* right after a Reconcile of the same Kernel returned nil, with no cluster
\* change since that call began, issues no Pod create, no Service create and
\* no Service update.
C1_Idempotence ==
    \A w \in Workers :
        proc[w].second =>
            /\ ~Tried(proc[w], "Create", "Pod")
            /\ ~Tried(proc[w], "Create", "Service")
            /\ ~Tried(proc[w], "Update", "Service")

C1_Witness ==
    /\ variant = "v1alpha1"
    /\ proc["w1"].second
    /\ proc["w1"].pc = "done"
    /\ proc["w1"].err = ""
    /\ Did(proc["w1"], "Get", "Service")
    /\ Did(proc["w1"], "Update", "KernelStatus")
    /\ proc["w1"].m0.KernelCreation["default"] = 1

\* C2 (idle cull, v1): a Reconcile that fetched a Kernel whose idle label is
\* "true" attempts no Pod or Service mutation, whatever the store holds.
C2_IdleCullNoFurtherMutation ==
    \A w \in Workers :
        (variant = "v1" /\ IdleFetched(proc[w])) =>
            \A i \in 1..Len(proc[w].ops) :
                proc[w].ops[i].kind \in {"Pod", "Service"} => proc[w].ops[i].verb = "Get"

\* C3 (idle cull metrics, v1): once the Delete of an idle Kernel has been
\* attempted, the culling counter of (namespace, name) is one above its value at
\* the start of the call and the timestamp gauge holds the time read for the
\* cull exactly when the Delete succeeded; when it failed the call has returned
\* an error and both metrics have their values from the start of the call.
C3_CullMetrics ==
    \A w \in Workers :
        LET p == proc[w]
            key == <<p.instance[1].namespace, p.instance[1].name>>
        IN  (variant = "v1" /\ IdleFetched(p) /\ Tried(p, "Delete", "Kernel")) =>
                IF Did(p, "Delete", "Kernel")
                THEN /\ metrics.KernelCullingCount[key] = p.m0.KernelCullingCount[key] + 1
                     /\ metrics.KernelCullingTimestamp[key] = p.t
                     /\ p.t >= p.t0 /\ p.t # 0
                ELSE /\ p.pc = "done" /\ p.err # ""
                     /\ metrics.KernelCullingCount[key] = p.m0.KernelCullingCount[key]
                     /\ metrics.KernelCullingTimestamp[key] = p.m0.KernelCullingTimestamp[key]

C3_Witness ==
    /\ variant = "v1"
    /\ IdleFetched(proc["w1"])
    /\ Did(proc["w1"], "Delete", "Kernel")
    /\ kernels[Foo] = Nil
    /\ metrics.KernelCullingCount[Foo] = 1
    /\ metrics.KernelCullingTimestamp[Foo] = 3

\* The step just taken created a Pod, and the stored Pod carries a controller
\* owner reference to the Kernel the call fetched
CreatedPodIsOwned ==
    \A w \in Workers :
        LET inst == proc[w].instance[1]
            key == <<inst.namespace, inst.name>>
        IN  (proc[w].pc = "createPod" /\ Did(proc'[w], "Create", "Pod")) =>
                /\ pods[key] = Nil
                /\ pods'[key] # Nil
                /\ pods'[key][1].owner =
                       Some([kind |-> "Kernel", name |-> inst.name, uid |-> inst.uid,
                             controller |-> TRUE])

\* With a scheme that does not know the Kernel type, the call returns that error
\* once the Pod has been generated and attempts no Pod create
SchemeFailureStops ==
    \A w \in Workers :
        ~schemeOK =>
            /\ ~Tried(proc[w], "Create", "Pod")
            /\ proc[w].pod # Nil => (proc[w].pc = "done" /\ proc[w].err = "SchemeError")

\* C4 (Pod ownership): every step that creates a Pod stores it with a controller
\* owner reference to the Kernel it was generated from; when establishing the
\* reference fails, Reconcile returns the error and no Pod create is attempted.
C4_PodOwnership == [][CreatedPodIsOwned]_vars /\ []SchemeFailureStops

C4_Witness ==
    /\ schemeOK
    /\ LastOp(proc["w1"]) = Some([verb |-> "Create", kind |-> "Pod", ok |-> TRUE])
    /\ pods[Foo] # Nil
    /\ pods[Foo][1].owner # Nil
    /\ pods[Foo][1].owner[1].uid = proc["w1"].instance[1].uid

\* No entry of the fetched Pod's container-status list is named after the Kernel
NoMatchingContainer(p) ==
    \A i \in 1..Len(p.foundPod[1].status.containerStatuses) :
        p.foundPod[1].status.containerStatuses[i].name # p.instance[1].name

\* C8 (container state, no match): when no entry of the Pod's container-status
\* list is named after the Kernel, the containerState stored by the status
\* write-back is the one the Kernel had when the Reconcile fetched it.
C8_ContainerStateUnchanged ==
    \A w \in Workers :
        LET p == proc[w]
        IN  (/\ LastOp(p) = Some([verb |-> "Update", kind |-> "KernelStatus", ok |-> TRUE])
             /\ p.quiet
             /\ NoMatchingContainer(p)) =>
                kernels[p.req][1].status.containerState = p.fetched[1].status.containerState

\* C10 (event relay, success): for an Event whose involved object is a Pod that
\* exists and carries the name label, the name resolved is the value of that
\* label and there is no error.
C10_RelayResolution ==
    \A w \in Workers :
        LET p == proc[w]
        IN  (/\ p.resolved # Nil
             /\ p.event[1].involvedObject.kind = "Pod"
             /\ p.involvedPod # Nil
             /\ RelayNameLabel(variant) \in DOMAIN p.involvedPod[1].labels) =>
                /\ p.resolved[1].name = p.involvedPod[1].labels[RelayNameLabel(variant)]
                /\ p.resolved[1].err = ""

C10_Witness ==
    /\ proc["w1"].resolved = Some([name |-> "bar", err |-> ""])
    /\ proc["w1"].involvedPod # Nil
    /\ proc["w1"].involvedPod[1].name = "foo"
    /\ proc["w1"].event[1].involvedObject = [kind |-> "Pod", name |-> "foo", namespace |-> "default"]

OnlyGets(p) == \A i \in 1..Len(p.ops) : p.ops[i].verb = "Get"

\* C11 (event relay, failure): when the Event's involved object is not a Pod, or
\* is a Pod that lacks the name label, resolution fails with the "not related"
\* error, Reconcile has returned that error, no event was emitted by the call and
\* the call made no store write.
C11_RelayFailure ==
    \A w \in Workers :
        LET p == proc[w]
        IN  (/\ p.resolved # Nil
             /\ \/ p.event[1].involvedObject.kind # "Pod"
                \/ /\ p.involvedPod # Nil
                   /\ RelayNameLabel(variant) \notin DOMAIN p.involvedPod[1].labels) =>
                /\ p.resolved[1] = [name |-> "", err |-> "NotRelated"]
                /\ p.pc = "done"
                /\ p.err = "NotRelated"
                /\ Len(emitted) = p.e0
                /\ OnlyGets(p)

C11_Witness ==
    /\ proc["w1"].resolved # Nil
    /\ proc["w1"].event[1].involvedObject.kind = "Pod"
    /\ proc["w1"].involvedPod # Nil
    /\ proc["w1"].involvedPod[1].labels = EmptyMap
    /\ proc["w1"].err = "NotRelated"
    /\ kernels[Foo] # Nil

\* Worker w has just made the store call of the step it was at
Stepped(w, at) == proc[w].pc = at /\ proc'[w].pc # at

\* Nothing in the store, the emitted events or the metrics changes in this step
NothingWritten ==
    /\ kernels' = kernels /\ pods' = pods /\ services' = services /\ events' = events
    /\ emitted' = emitted
    /\ metrics' = metrics

\* The Kernel the event path looks up
InvolvedKernelKey(p) == <<p.req[1], p.resolved[1].name>>

KernelGoneSucceeds ==
    \A w \in Workers :
        (/\ Stepped(w, "getInvolvedKernel")
         /\ envLeft' = envLeft
         /\ InvolvedKernelKey(proc[w]) \in Keys => kernels[InvolvedKernelKey(proc[w])] = Nil) =>
            /\ proc'[w].pc = "done"
            /\ proc'[w].err = ""
            /\ NothingWritten
            /\ Len(emitted') = proc[w].e0
            /\ OnlyGets(proc'[w])

\* C12 (event path, Kernel gone): when the Event's Pod resolves to a Kernel name
\* and the fetch of that Kernel answers not-found, Reconcile returns success,
\* emits no event and writes nothing to the store.
C12_EventKernelGone == [][KernelGoneSucceeds]_vars

C12_Witness ==
    /\ proc["w1"].pc = "done"
    /\ proc["w1"].resolved = Some([name |-> "bar", err |-> ""])
    /\ LastOp(proc["w1"]) = Some([verb |-> "Get", kind |-> "Kernel", ok |-> FALSE])
    /\ proc["w1"].err = ""
    /\ kernels[Foo] # Nil

\* C13 (event path, re-emit): when the Event's Pod resolves to an existing Kernel,
\* the call has emitted exactly one event, on that Kernel, with the Event's type
\* and reason and the message "Reissued from pod/<involved name>: <message>", has
\* returned success, and has run no Kernel-reconcile step: no Kernel fetched, no
\* store write, no metric changed.
C13_EventReemit ==
    \A w \in Workers :
        LET p == proc[w]
            ev == p.event[1]
        IN  (/\ p.resolved # Nil
             /\ LastOp(p) = Some([verb |-> "Get", kind |-> "Kernel", ok |-> TRUE])) =>
                /\ Len(emitted) = p.e0 + 1
                /\ emitted[Len(emitted)] =
                       [object |-> <<p.req[1], p.resolved[1].name>>,
                        type |-> ev.type, reason |-> ev.reason,
                        message |-> <<"Reissued from ", "pod", "/", ev.involvedObject.name,
                                      ": ", ev.message>>]
                /\ p.pc = "done"
                /\ p.err = ""
                /\ p.instance = Nil
                /\ OnlyGets(p)
                /\ metrics = p.m0

C13_Witness ==
    /\ proc["w1"].resolved = Some([name |-> "foo", err |-> ""])
    /\ LastOp(proc["w1"]) = Some([verb |-> "Get", kind |-> "Kernel", ok |-> TRUE])
    /\ Len(emitted) = 1
    /\ emitted[1].type = "Warning"
    /\ emitted[1].reason = "BackOff"
    /\ emitted[1].object = Foo

KernelFetchOutcome ==
    \A w \in Workers :
        Stepped(w, "getKernel") =>
            /\ (envLeft' = envLeft /\ kernels[proc[w].req] = Nil) =>
                   /\ proc'[w].pc = "done"
                   /\ proc'[w].err = ""
                   /\ NothingWritten
                   /\ metrics' = proc[w].m0
                   /\ OnlyGets(proc'[w])
            /\ envLeft' < envLeft =>
                   /\ proc'[w].pc = "done"
                   /\ proc'[w].err = "StoreError"
                   /\ NothingWritten

\* C14 (Kernel not found): when no Event exists at the key and the Kernel fetch
\* answers not-found, Reconcile returns success and changes neither the store
\* nor a metric; when the fetch fails otherwise, that error is returned.
C14_KernelNotFound == [][KernelFetchOutcome]_vars

C14_Witness ==
    /\ proc["w1"].pc = "done"
    /\ proc["w1"].event = Nil
    /\ proc["w1"].instance = Nil
    /\ LastOp(proc["w1"]) = Some([verb |-> "Get", kind |-> "Kernel", ok |-> FALSE])
    /\ proc["w1"].err = ""
    /\ kernels[Foo] = Nil
    /\ pods[Foo] # Nil

\* C15 (creation counter): during a call the creation counter of the namespace
\* stands one above its value at the start of the call exactly when the call's
\* Pod create succeeded, and a failed create shows in the failure counter only.
C15_CreationCounter ==
    \A w \in Workers :
        LET p == proc[w]
            ns == p.req[1]
        IN  p.pc # "idle" =>
                /\ metrics.KernelCreation[ns] =
                       p.m0.KernelCreation[ns] + (IF Did(p, "Create", "Pod") THEN 1 ELSE 0)
                /\ metrics.KernelFailCreation[ns] =
                       p.m0.KernelFailCreation[ns]
                           + (IF Tried(p, "Create", "Pod") /\ ~Did(p, "Create", "Pod")
                              THEN 1 ELSE 0)

\* C16 (failed Pod creation, v1): when the Pod create failed, the failure counter
\* of the namespace is one above its value at the start of the call, the call
\* emitted exactly one event, a Warning on the Kernel, the call has returned the
\* error, and it made no attempt to write the Kernel's status.
C16_FailedCreation ==
    \A w \in Workers :
        LET p == proc[w]
            inst == p.instance[1]
        IN  (variant = "v1" /\ Tried(p, "Create", "Pod") /\ ~Did(p, "Create", "Pod")) =>
                /\ metrics.KernelFailCreation[inst.namespace] =
                       p.m0.KernelFailCreation[inst.namespace] + 1
                /\ Len(emitted) = p.e0 + 1
                /\ emitted[Len(emitted)].type = "Warning"
                /\ emitted[Len(emitted)].reason = "PodCreationFailed"
                /\ emitted[Len(emitted)].object = <<inst.namespace, inst.name>>
                /\ p.pc = "done"
                /\ p.err # ""
                /\ ~Tried(p, "Update", "KernelStatus")

C16_Witness ==
    /\ variant = "v1"
    /\ Tried(proc["w1"], "Create", "Pod")
    /\ ~Did(proc["w1"], "Create", "Pod")
    /\ proc["w1"].err = "StoreError"
    /\ metrics.KernelFailCreation["default"] = 1
    /\ Len(emitted) = 1
    /\ kernels[Foo] # Nil

\* The decimal strings of the configured defaults of the port-injecting variant
DefaultPortValue(n) ==
    CASE n = "SHELL_PORT" -> <<"5","2","7","0","0">>
      [] n = "IOPUB_PORT" -> <<"5","2","7","0","1">>
      [] n = "HB_PORT" -> <<"5","2","7","0","2">>
      [] n = "CONTROL_PORT" -> <<"5","2","7","0","3">>
      [] n = "STDIN_PORT" -> <<"5","2","7","0","4">>

EntriesNamed(env, n) == {i \in 1..Len(env) : env[i].name = n}

\* C17 (default port injection, port-injecting variant): container[0] of the
\* generated Pod keeps the template's environment entries, and for each of the
\* five port variables it has exactly one entry with the configured default when
\* the template had none, and no entry beyond the template's own when it had.
C17_PortInjection ==
    (GenDone /\ variant = "v1alpha1") =>
        LET env0 == fn.in.instance.spec.template.containers[1].env
            env1 == fn.out[1].spec.containers[1].env
        IN  /\ Len(env1) >= Len(env0)
            /\ SubSeq(env1, 1, Len(env0)) = env0
            /\ \A n \in {"SHELL_PORT", "IOPUB_PORT", "STDIN_PORT", "HB_PORT", "CONTROL_PORT"} :
                   IF EntriesNamed(env0, n) = {}
                   THEN /\ Cardinality(EntriesNamed(env1, n)) = 1
                        /\ \A i \in EntriesNamed(env1, n) : env1[i].value = DefaultPortValue(n)
                   ELSE EntriesNamed(env1, n) = EntriesNamed(env0, n)
            /\ Len(env1) = Len(env0)
                   + Cardinality({n \in {"SHELL_PORT", "IOPUB_PORT", "STDIN_PORT", "HB_PORT",
                                         "CONTROL_PORT"} : EntriesNamed(env0, n) = {}})

C17_Witness ==
    /\ GenDone
    /\ variant = "v1alpha1"
    /\ fn.in.order = <<3, 1, 5, 2, 4>>
    /\ fn.in.instance.spec.template.containers[1] = PortedContainer
    /\ Len(fn.out[1].spec.containers[1].env) = 6
    /\ fn.out[1].spec.containers[1].env[2] = EnvVar("SHELL_PORT", <<"6","0","0","0">>)
    /\ fn.out[1].spec.containers[1].env[4] = EnvVar("STDIN_PORT", <<"5","2","7","0","4">>)

C17_WitnessFresh ==
    /\ GenDone
    /\ variant = "v1alpha1"
    /\ fn.in.instance.spec.template.containers[1] = MainContainer
    /\ Len(fn.out[1].spec.containers[1].env) = 6

\* C18 (restart policy, v1): every Pod the v1 generator returns has restart policy
\* Never, whatever the template's restart policy is.
C18_RestartPolicyNever ==
    (GenDone /\ variant = "v1") => fn.out[1].spec.restartPolicy = "Never"

C18_Witness ==
    /\ GenDone
    /\ variant = "v1"
    /\ fn.in.instance.spec.template.restartPolicy = "Always"
    /\ fn.out[1].spec.restartPolicy = "Never"

\* The argument following `flag` in the monitor container's argument list
ArgAfter(args, flag) ==
    LET at == {i \in 1..(Len(args) - 1) : args[i] = flag}
    IN  IF at = {} THEN Nil ELSE Some(args[(CHOOSE i \in at : TRUE) + 1])

MonitorOf(pod) ==
    LET at == {i \in 1..Len(pod.spec.containers) : pod.spec.containers[i].name = "monitor"}
    IN  pod.spec.containers[CHOOSE i \in at : \A j \in at : j <= i]

\* C19 (culling-interval default, v1): the monitor sidecar of the generated Pod is
\* started with --culling-interval 60 when spec.cullingIntervalSeconds is zero,
\* and with the given value when it is not.
C19_CullingIntervalDefault ==
    (GenDone /\ variant = "v1") =>
        LET given == fn.in.instance.spec.cullingIntervalSeconds
        IN  ArgAfter(MonitorOf(fn.out[1]).args, "--culling-interval") =
                Some(IF given = 0 THEN "60" ELSE ToString(given))

PortVars == {"SHELL_PORT", "IOPUB_PORT", "STDIN_PORT", "HB_PORT", "CONTROL_PORT"}

\* The decimal digits of n, most significant first
RECURSIVE DecimalOf(_)
DecimalOf(n) ==
    LET d == CHOOSE c \in {"0","1","2","3","4","5","6","7","8","9"} : ToString(n % 10) = c
    IN  IF n < 10 THEN <<d>> ELSE Append(DecimalOf(n \div 10), d)

\* C20 (documented default ports): with no port environment configured, the
\* default of each of the five ports equals the value the README of the same
\* variant gives for it, and that value is what the port-injecting generator
\* puts into a Pod whose template sets no port.
C20_DocumentedPorts ==
    (GenDone /\ variant = "v1alpha1") =>
        LET env0 == fn.in.instance.spec.template.containers[1].env
            env1 == fn.out[1].spec.containers[1].env
        IN  \A n \in PortVars :
                /\ Config[n] = ReadmePortsEarlier[n]
                /\ LaterConfig[n] = ReadmePortsLater[n]
                /\ EntriesNamed(env0, n) = {} =>
                       \A i \in EntriesNamed(env1, n) :
                           env1[i].value = DecimalOf(ReadmePortsEarlier[n])

(***************************************************************************)
(* Two concurrent calls                                                    *)
(***************************************************************************)
RECURSIVE PodsCreatedBy(_)
PodsCreatedBy(ws) ==
    IF ws = {} THEN 0
    ELSE LET w == CHOOSE x \in ws : TRUE
         IN  proc[w].created + PodsCreatedBy(ws \ {w})

CreateFailedIn(p) == Tried(p, "Create", "Pod") /\ ~Did(p, "Create", "Pod")

PodNotFoundOp == [verb |-> "Get", kind |-> "Pod", ok |-> FALSE]

\* A step of worker w changes a stored Pod only by creating it where there was
\* none, right after its Get of the Pod came back empty
PodWriteIsCreate(w) ==
    proc'[w].pc # proc[w].pc =>
        \A k \in Keys :
            pods'[k] # pods[k] =>
                /\ pods[k] = Nil
                /\ proc[w].pc = "createPod"
                /\ LastOp(proc[w]) = Some(PodNotFoundOp)
                /\ pods'[k] = proc[w].pod

\* The store operations a call has issued on Pods are Gets and Creates, and a
\* Create only follows a Get that found nothing
PodOpsAreGetAndCreate(p) ==
    /\ \A i \in 1..Len(p.ops) : p.ops[i].kind = "Pod" => p.ops[i].verb \in {"Get", "Create"}
    /\ p.pc = "createPod" => LastOp(p) = Some(PodNotFoundOp)

\* C22 (existing Pods are never mutated): in the three engines, a step of
\* Reconcile changes a stored Pod only by creating it after a Get that did not
\* find it; the calls issue no other verb than Get and Create on Pods, so a Pod
\* that exists keeps its spec, labels and annotations.
C22_PodsNeverMutated ==
    /\ [][\A w \in Workers : PodWriteIsCreate(w)]_vars
    /\ [](\A w \in Workers : PodOpsAreGetAndCreate(proc[w]))

\* The v1beta1 engine found a Pod that is not the one it would generate, wrote
\* the status and returned: the Pod is still as it was
C22_Witness ==
    /\ variant = "v1beta1"
    /\ proc["w1"].pc = "done" /\ proc["w1"].err = ""
    /\ Did(proc["w1"], "Get", "Pod")
    /\ Did(proc["w1"], "Update", "KernelStatus")
    /\ pods[Foo] = Some(ForeignPod(variant, Foo))
    /\ pods[Foo] # proc["w1"].pod

(***************************************************************************)
(* Status write-back                                                       *)
(***************************************************************************)
StatusUpdatesOf(p) ==
    {i \in 1..Len(p.ops) : p.ops[i].verb = "Update" /\ p.ops[i].kind = "KernelStatus"}

\* The call took the cull path: it issued the Delete of its Kernel
CullPathTaken(p) == Tried(p, "Delete", "Kernel")

\* C23 (status write-back ordering): a finished Reconcile of an existing Kernel
\* has issued the status update at most once and as its last store operation;
\* it has issued it if it returned nil without taking the cull path, and has
\* not issued it if it took the cull path.
C23_StatusWriteOrdering ==
    \A w \in Workers :
        LET p == proc[w]
        IN  (p.pc = "done" /\ p.instance # Nil) =>
               /\ Cardinality(StatusUpdatesOf(p)) <= 1
               /\ StatusUpdatesOf(p) # {} => Len(p.ops) \in StatusUpdatesOf(p)
               /\ (p.err = "" /\ ~CullPathTaken(p)) => StatusUpdatesOf(p) # {}
               /\ CullPathTaken(p) => StatusUpdatesOf(p) = {}

(***************************************************************************)
(* The kernel container and the monitor's arguments                        *)
(***************************************************************************)
\* The containers of the Pod whose statuses the projector would pick for `name`
ContainersNamed(pod, name) ==
    {i \in 1..Len(pod.spec.containers) : pod.spec.containers[i].name = name}

\* C24 (kernel container identity): in every Pod generated by the v1 and the
\* v1beta1 generator, container[0] carries the Kernel's name whatever the
\* template called it, the other template containers keep theirs, and the
\* projector's scan by Kernel name over the statuses of that Pod's containers
\* picks container[0].
C24_KernelContainerName ==
    (GenDone /\ variant \in {"v1", "v1beta1"}) =>
        LET instance == fn.in.instance
            tcs == instance.spec.template.containers
            pod == fn.out[1]
        IN  /\ pod.spec.containers[1].name = instance.name
            /\ \A i \in 2..Len(tcs) : pod.spec.containers[i].name = tcs[i].name
            /\ ContainersNamed(pod, instance.name) = {1}
            /\ ScanContainerStatuses(RunningStatus(pod.spec.containers).containerStatuses,
                                     instance.name, EmptyState, 1)
                 = [found |-> TRUE, state |-> StRunning]

\* The v1beta1 generator renamed a container the template called "main", next to
\* a sidecar
C24_Witness ==
    /\ GenDone
    /\ variant = "v1beta1"
    /\ fn.in.instance.name = "bar"
    /\ Len(fn.in.instance.spec.template.containers) = 2
    /\ fn.in.instance.spec.template.containers[1].name = "main"
    /\ fn.out[1].spec.containers[1].name = "bar"

ServiceDone == fn.op = "service" /\ fn.out # Nil

\* The recognized socket variables present in env, in the fixed order
RECURSIVE SocketVarsPresent(_, _)
SocketVarsPresent(env, n) ==
    IF n > Len(PortNames) THEN <<>>
    ELSE (IF \E i \in 1..Len(env) : env[i].name = PortNames[n]
          THEN <<PortNames[n]>> ELSE <<>>) \o SocketVarsPresent(env, n + 1)

\* The values env gives to the variable called name
ValuesOf(env, name) == {env[i].value : i \in {j \in 1..Len(env) : env[j].name = name}}

\* C26 (Service generation): the desired Service is named after the Kernel, its
\* selector is exactly {Kernel-name: Kernel name}, and its ports are one entry
\* per recognized socket variable present in the environment of the generated
\* Pod's container[0], in the order shell, iopub, stdin, hb, control, each with
\* port and target port equal to the number the variable holds.
C26_ServiceGeneration ==
    ServiceDone =>
        LET instance == fn.in.instance
            svc == fn.out[1].service
            env == fn.out[1].pod.spec.containers[1].env
            present == SocketVarsPresent(env, 1)
        IN  /\ svc.name = instance.name
            /\ svc.spec.selector = MapPut(EmptyMap, AlphaGeneratorNameLabel, instance.name)
            /\ Len(svc.spec.ports) = Len(present)
            /\ \A i \in 1..Len(present) :
                  /\ svc.spec.ports[i].name = ServicePortName(present[i])
                  /\ \E v \in ValuesOf(env, present[i]) :
                        /\ svc.spec.ports[i].port = Atoi(v)
                        /\ svc.spec.ports[i].targetPort = Atoi(v)

(***************************************************************************)
(* Service create-or-update                                                *)
(***************************************************************************)
\* One of the four owned fields of the found Service is not as desired
OwnedFieldsDiffer(found, desired) ==
    \/ found.labels # desired.labels
    \/ found.annotations # desired.annotations
    \/ found.spec.selector # desired.spec.selector
    \/ found.spec.ports # desired.spec.ports

\* The Service step of worker w that writes the store writes the stored Service
\* with its four owned fields replaced by the desired ones and nothing else
ServiceUpdateIsOwnedFields(w) ==
    LET p == proc[w]
        desired == p.service[1]
        key == <<desired.namespace, desired.name>>
    IN  (Stepped(w, "updateService") /\ services' # services) =>
            /\ services[key] # Nil
            /\ services'[key] =
                   Some([services[key][1] EXCEPT !.labels = desired.labels,
                                                 !.annotations = desired.annotations,
                                                 !.spec.selector = desired.spec.selector,
                                                 !.spec.ports = desired.spec.ports])
            /\ services'[key][1].spec.clusterIP = services[key][1].spec.clusterIP
            /\ \A k \in Keys \ {key} : services'[k] = services[k]

\* A call about to issue, or having issued, the Service Update found a Service
\* that differs from the desired one, and did not create the Service itself
ServiceUpdateOnlyIfDiffers(p) ==
    (p.pc = "updateService" \/ Tried(p, "Update", "Service")) =>
        /\ Did(p, "Get", "Service")
        /\ OwnedFieldsDiffer(p.foundService[1].fetched, p.service[1])
        /\ ~p.justCreated
        /\ ~Tried(p, "Create", "Service")

\* C27 (Service create-or-update): Reconcile issues a Service Update only when
\* the Service it found differs from the desired one in labels, annotations,
\* selector or ports; the Update replaces those four fields and leaves the rest
\* of the stored Service, the cluster IP included, as it was; a call that
\* created the Service issues no Update.
C27_ServiceUpdate ==
    /\ [][\A w \in Workers : ServiceUpdateIsOwnedFields(w)]_vars
    /\ [](\A w \in Workers : /\ ServiceUpdateOnlyIfDiffers(proc[w])
                             /\ proc[w].justCreated => ~Tried(proc[w], "Update", "Service"))

\* The call found the Service carrying a user's label, updated it, and the
\* Service kept its cluster IP
C27_Witness ==
    /\ Did(proc["w1"], "Update", "Service")
    /\ proc["w1"].foundService[1].fetched.labels = MapPut(EmptyMap, "team", "a")
    /\ services[Foo] # Nil
    /\ services[Foo][1].labels = EmptyMap
    /\ services[Foo][1].spec.clusterIP = "10.96.0.10"

(***************************************************************************)
(* Failure semantics                                                       *)
(***************************************************************************)
\* No store operation occurs twice in the log of a call
NoRetry(p) ==
    \A i, j \in 1..Len(p.ops) :
        (p.ops[i].verb = p.ops[j].verb /\ p.ops[i].kind = p.ops[j].kind) => i = j

\* A write the store refused is the last operation of the call, which has
\* returned the store's error
FailedWriteEndsCall(p) ==
    \A i \in 1..Len(p.ops) :
        (~p.ops[i].ok /\ p.ops[i].verb # "Get") =>
            /\ i = Len(p.ops)
            /\ p.pc = "done"
            /\ p.err \in {"StoreError", "NotFound", "AlreadyExists", "Conflict"}

\* A store call of worker w that fails for a reason other than not-found ends
\* the call in the same step, with that error
FaultEndsCall(w) ==
    (proc'[w].pc # proc[w].pc /\ envLeft' < envLeft) =>
        /\ proc'[w].pc = "done"
        /\ proc'[w].err = "StoreError"
        /\ Len(proc'[w].ops) = Len(proc[w].ops) + 1
        /\ ~proc'[w].ops[Len(proc'[w].ops)].ok
        /\ NothingWritten \/ proc[w].pc = "createPod"

\* C28 (failure semantics, v1): a Reconcile call attempts each store operation
\* at most once; a store operation that fails, other than a not-found on a
\* fetch, ends the call at once with that error and nothing after it; and every
\* return carries the empty result, without requeue.
C28_FailureSemantics ==
    /\ [][variant = "v1" => \A w \in Workers : FaultEndsCall(w)]_vars
    /\ [](variant = "v1" =>
            \A w \in Workers :
                /\ NoRetry(proc[w])
                /\ FailedWriteEndsCall(proc[w])
                /\ proc[w].pc = "done" => proc[w].result = Some(EmptyResult))

\* The status update of a call that had created the Pod failed: the call has
\* returned the error
C28_Witness ==
    /\ variant = "v1"
    /\ proc["w1"].pc = "done"
    /\ proc["w1"].err = "StoreError"
    /\ Did(proc["w1"], "Create", "Pod")
    /\ LastOp(proc["w1"]) = Some([verb |-> "Update", kind |-> "KernelStatus", ok |-> FALSE])
    /\ proc["w1"].result = Some(EmptyResult)

(***************************************************************************)
(* The running-kernels gauge                                               *)
(***************************************************************************)
\* The Pods of namespace ns that carry, under the label the collector of the
\* variant reads, their own name
KernelPodsIn(ns) ==
    {k \in Keys : /\ k[1] = ns
                  /\ pods[k] # Nil
                  /\ ScrapeNameLabel(variant) \in DOMAIN pods[k][1].labels
                  /\ pods[k][1].labels[ScrapeNameLabel(variant)] = pods[k][1].name}

\* C29 (running-kernel gauge): right after a scrape whose List succeeded, the
\* running-count gauge of every namespace is the number of Pods now in that
\* namespace whose name-label value is their own name, zero (or no value) for
\* a namespace without such a Pod, whatever Pods came and went before.
C29_RunningGauge ==
    (fn.op = "scrape" /\ fn.in = Some(TRUE)) =>
        \A ns \in Namespaces : metrics.runningKernels[ns] = Cardinality(KernelPodsIn(ns))

C31_UnobservedPod ==
    (StatusDone /\ fn.in.pod.status = EmptyPodStatus) =>
        /\ fn.out[1].conditions = <<>>
        /\ EncodeState(fn.out[1].containerState) = EmptyState

\* The zero Pod object projected for a Kernel whose status held a running state
C31_Witness ==
    /\ StatusDone
    /\ fn.in.pod = ZeroPod
    /\ fn.in.kernel.status.containerState = StRunning
    /\ fn.out[1].conditions = <<>>
    /\ EncodeState(fn.out[1].containerState) = EmptyState

\* C32 (status projection, phase and IP): the status the v1 projector returns
\* has the phase and the IP of the Pod it was given, whatever phase and IP the
\* Kernel's status held before.
C32_PhaseAndIP ==
    (StatusDone /\ variant = "v1") =>
        /\ fn.out[1].phase = fn.in.pod.status.phase
        /\ fn.out[1].ip = fn.in.pod.status.podIP

\* A Kernel whose status said Running at 10.0.0.9 is projected from a Pod that
\* has conditions but neither phase nor IP, and another from a running Pod
C32_Witness ==
    /\ StatusDone
    /\ variant = "v1"
    /\ fn.in.kernel.status.phase = "Running"
    /\ fn.in.kernel.status.ip = "10.0.0.9"
    /\ fn.in.pod.status.phase = ""
    /\ Len(fn.in.pod.status.conditions) > 0
    /\ fn.out[1].phase = ""
    /\ fn.out[1].ip = ""

(***************************************************************************)
(* Progress of the running controller                                      *)
(***************************************************************************)
\* A Kernel is there and is not marked idle
KernelLive ==
    /\ kernels[Foo] # Nil
    /\ MapGet(kernels[Foo][1].labels, KernelIdleLabel) # "true"

\* The Pod under the Kernel's name has the Kernel as its controller owner
PodOwned ==
    /\ kernels[Foo] # Nil
    /\ pods[Foo] # Nil
    /\ pods[Foo][1].name = kernels[Foo][1].name
    /\ pods[Foo][1].owner = Some(OwnerRef(kernels[Foo][1]))

\* A call has just written the Kernel's status from the status the Pod has now
StatusWrittenFromPod ==
    \E w \in Workers :
        /\ proc[w].pc = "done"
        /\ LastOp(proc[w]) = Some([verb |-> "Update", kind |-> "KernelStatus", ok |-> TRUE])
        /\ pods[Foo] # Nil
        /\ \/ proc[w].foundPod = Some(DecodePod("foundPod", pods[Foo][1]))
           \/ proc[w].foundPod = Some(ZeroPod) /\ pods[Foo][1].status = EmptyPodStatus

PodReady == PodOwned /\ StatusWrittenFromPod

\* No Event object is stored under the Kernel's namespace and name
NoEventAtKey == events[Foo] = Nil

\* The Pod under the Kernel's name, if any, has a controller owner
NoForeignPod == pods[Foo] = Nil \/ pods[Foo][1].owner # Nil

\* C33 as stated (eventual Pod): when a Kernel without idle marker stays in the
\* store, the key keeps being handed to the worker and the store calls succeed
\* in the end, then at some point a Pod of the Kernel's name, owned by the
\* Kernel, exists and the Kernel's status has been written from that Pod's status.
C33_EventualPodAsStated == ([]KernelLive) => <>PodReady

\* C33 (eventual Pod): the same, for a Kernel under whose namespace and name
\* there is never an Event object and never a Pod without controller owner.
C33_EventualPod == ([]KernelLive /\ []NoEventAtKey /\ []NoForeignPod) => <>PodReady

\* A call has created the Pod of a Kernel that is not idle and has written the
\* status from it
C33_Witness ==
    /\ KernelLive
    /\ NoEventAtKey
    /\ PodReady
    /\ proc["w1"].created = 1
    /\ Did(proc["w1"], "Create", "Pod")

\* The v1 engine's Kernel carries the idle label with the value "true"
IdleMarked ==
    /\ variant = "v1"
    /\ kernels[Foo] # Nil
    /\ MapGet(kernels[Foo][1].labels, KernelIdleLabel) = "true"

\* No call that deleted the Kernel has created a Pod
CullLeavesNoPod ==
    \A w \in Workers :
        ~(variant = "v1" /\ Did(proc[w], "Delete", "Kernel") /\ Did(proc[w], "Create", "Pod"))

\* C34 (eventual cull): a Kernel whose idle label is "true" is deleted in the
\* end; Pods whose owning Kernel is gone are gone in the end; and the call that
\* deletes the Kernel creates no Pod.
C34_EventualCull ==
    /\ IdleMarked ~> ~IdleMarked
    /\ (Orphans # {}) ~> (Orphans = {})
    /\ []CullLeavesNoPod

(***************************************************************************)
(* The name label across generator, event relay and metrics scrape         *)
(***************************************************************************)
\* C35 (name-label consistency): the Pod generated from a Kernel without labels
\* carries a label that the event relay of the same variant resolves to the
\* Kernel's name and that the scrape of the same variant counts as a running
\* kernel.
C35_NameLabelConsistency ==
    (GenDone /\ DOMAIN fn.in.instance.labels = {}) =>
        LET pod == fn.out[1]
            object == [kind |-> "Pod", namespace |-> pod.namespace, name |-> pod.name]
        IN  /\ kernelNameFromInvolvedObject(variant, object, Some(pod), "") =
                   [name |-> fn.in.instance.name, err |-> ""]
            /\ ScrapeCount({pod}, ScrapeNameLabel(variant), pod.namespace) = 1

(***************************************************************************)
(* Deletion of the Kernel by the engine                                    *)
(***************************************************************************)
\* The Kernel carries the shutdown marker of its engine with the value the engine
\* acts on; the engine with the Service has no marker
ShutdownMarked(v, kernel) ==
    CASE v = "v1" -> MapGet(kernel.labels, KernelIdleLabel) = "true"
      [] v = "v1beta1" -> MapGet(kernel.annotations, aKernelDeletion) = "True"
      [] OTHER -> FALSE

\* A call that has issued a Delete of the Kernel fetched a marked Kernel
DeleteIssuedOnSignal ==
    \A w \in Workers :
        Tried(proc[w], "Delete", "Kernel") =>
            proc[w].fetched # Nil /\ ShutdownMarked(variant, proc[w].fetched[1])

\* A step of a call that takes the Kernel out of the store is such a Delete
RemovalIsDeleteOnSignal ==
    \A w \in Workers :
        (proc'[w].pc # proc[w].pc /\ kernels[Foo] # Nil /\ kernels'[Foo] = Nil) =>
            /\ LastOp(proc'[w]) = Some([verb |-> "Delete", kind |-> "Kernel", ok |-> TRUE])
            /\ ShutdownMarked(variant, proc[w].fetched[1])

\* C36 (deletion only on signal): a Reconcile issues a Delete of the Kernel, and
\* takes the Kernel out of the store, only when the Kernel it fetched carries the
\* idle label with value "true" (v1) or the culling annotation with value "True"
\* (v1beta1); the engine with the Service never does.
C36_DeletionOnlyOnSignal == []DeleteIssuedOnSignal /\ [][RemovalIsDeleteOnSignal]_vars

\* A v1beta1 call has deleted a Kernel annotated "True"
C36_Witness ==
    /\ variant = "v1beta1"
    /\ Did(proc["w1"], "Delete", "Kernel")
    /\ MapGet(proc["w1"].fetched[1].annotations, aKernelDeletion) = "True"
    /\ kernels[Foo] = Nil

(***************************************************************************)
(* The Event lookup at the head of Reconcile                               *)
(***************************************************************************)
\* The positions of a call past the Event branch
KernelPcs ==
    {"getKernel", "updateKernel", "cull", "getPod", "createPod", "getService",
     "createService", "updateService", "cullBeta", "updateStatus"}

\* A call that is at, or has attempted, a Kernel step found no Event first
KernelStepsAfterMiss ==
    \A w \in Workers :
        (\/ proc[w].pc \in KernelPcs
         \/ Tried(proc[w], "Get", "Kernel") /\ proc[w].resolved = Nil
         \/ Tried(proc[w], "Delete", "Kernel")
         \/ Tried(proc[w], "Create", "Pod")
         \/ Tried(proc[w], "Update", "KernelStatus")) =>
            /\ proc[w].event = Nil
            /\ proc[w].ops[1] = [verb |-> "Get", kind |-> "Event", ok |-> FALSE]

\* The first fetch leads to the Kernel lookup only when no Event is stored under
\* the request's key, and a call that found one writes neither Pod nor Kernel
EventFirst ==
    \A w \in Workers :
        /\ (Stepped(w, "getEvent") /\ proc'[w].pc = "getKernel") => events[proc[w].req] = Nil
        /\ (proc[w].event # Nil /\ proc'[w].pc # proc[w].pc) =>
               pods' = pods /\ kernels' = kernels /\ services' = services

\* C37 (Event lookup precedes Kernel lookup): a Reconcile reaches the Kernel
\* steps (cull, Pod create, status write) only if no Event object was stored
\* under the request's (namespace, name) at its first fetch; a call that found
\* one creates no Pod and writes no status.
C37_EventPrecedesKernel == []KernelStepsAfterMiss /\ [][EventFirst]_vars

\* An Event is stored under the name of a Kernel without Pod: the call returned
\* from the Event branch and the Pod is still missing
C37_Witness ==
    /\ events[Foo] # Nil
    /\ kernels[Foo] # Nil
    /\ pods[Foo] = Nil
    /\ proc["w1"].pc = "done"
    /\ proc["w1"].event = events[Foo]
    /\ ~Tried(proc["w1"], "Create", "Pod")

(***************************************************************************)
(* Container names of the generated Pod                                    *)
(***************************************************************************)
\* C38 (distinct container names, v1): the containers of every generated Pod
\* have pairwise distinct names, and exactly one of them, the last, is named
\* "monitor".
C38_DistinctContainerNames ==
    (GenDone /\ variant = "v1") =>
        LET cs == fn.out[1].spec.containers
        IN  /\ \A i, j \in 1..Len(cs) : cs[i].name = cs[j].name => i = j
            /\ ContainersNamed(fn.out[1], "monitor") = {Len(cs)}

(***************************************************************************)
(* The one Update of the Kernel object (v1beta1)                           *)
(***************************************************************************)
\* The Kernel carries jupyter-kernel-controller/updated=True
Updated(kernel) ==
    MapGet(kernel.labels, KERNEL_UPDATED_LABEL_NAME) = KERNEL_UPDATED_LABEL_VALUE

\* The Update of the Kernel object is sent only for a Kernel fetched without the
\* updated label, and a call whose Update failed has returned the error without
\* having looked for or created the Pod
UpdateOnlyWhenNotUpdated ==
    \A w \in Workers :
        LET p == proc[w]
        IN  /\ Tried(p, "Update", "Kernel") => variant = "v1beta1"
            /\ (Tried(p, "Update", "Kernel") /\ ~Did(p, "Update", "Kernel")) =>
                   /\ p.pc = "done"
                   /\ p.err # ""
                   /\ LastOp(p) = Some([verb |-> "Update", kind |-> "Kernel", ok |-> FALSE])
                   /\ ~(\E i \in 1..Len(p.ops) : p.ops[i].kind = "Pod")

\* The step that sends the Update: the fetched Kernel lacks the label; when the
\* Update succeeds the stored Kernel carries it.  No step of a call takes the
\* label off a stored Kernel, and a call that fetched a Kernel carrying it sends
\* no Update.
UpdateOnce ==
    \A w \in Workers :
        /\ Stepped(w, "updateKernel") =>
               /\ ~Updated(proc[w].fetched[1])
               /\ Did(proc'[w], "Update", "Kernel") =>
                      kernels'[Foo] # Nil /\ Updated(kernels'[Foo][1])
        /\ (/\ proc'[w].pc # proc[w].pc
            /\ kernels[Foo] # Nil /\ Updated(kernels[Foo][1])
            /\ kernels'[Foo] # Nil) => Updated(kernels'[Foo][1])
        /\ (/\ Stepped(w, "getKernel")
            /\ proc'[w].fetched # Nil /\ Updated(proc'[w].fetched[1])) =>
               proc'[w].pc # "updateKernel"

\* C39 (one-time Kernel update, v1beta1): the Update of the Kernel object is
\* issued only for a Kernel that lacks jupyter-kernel-controller/updated=True;
\* after a successful Update the stored Kernel carries the label, no call takes
\* it off, and a call that fetches a Kernel carrying it issues no Update; a call
\* whose Update failed has returned the error before any Pod was created.
C39_UpdateOnce == []UpdateOnlyWhenNotUpdated /\ [][UpdateOnce]_vars

\* A call has updated the Kernel and gone on to create the Pod
C39_Witness ==
    /\ variant = "v1beta1"
    /\ Did(proc["w1"], "Update", "Kernel")
    /\ Did(proc["w1"], "Create", "Pod")
    /\ kernels[Foo] # Nil
    /\ Updated(kernels[Foo][1])

(***************************************************************************)
(* Change detection of CopyServiceFields                                   *)
(***************************************************************************)
CopyDone == fn.op = "copy" /\ fn.out # Nil

\* C40 (CopyServiceFields change detection): the flag CopyServiceFields returns
\* is true exactly when labels, annotations, selector or ports of `to` after the
\* call differ from what they were before.
C40_ChangeDetection ==
    CopyDone => (fn.out[1].requireUpdate <=> OwnedFieldsDiffer(fn.in.to, fn.out[1].to))

====
